---- MODULE Spec2Model ----
(***************************************************************************)
(* A model of nazeeeef007/redis-clone: the sharded in-memory store         *)
(* (store/store.go), its append-only file (aof/aof.go), the command        *)
(* handlers (command/handler.go) and the connection loop (server).         *)
(*                                                                         *)
(* Strings are sequences of character codes, so that the hash of getLock,  *)
(* strings.ToUpper, strconv.Atoi and the RESP framing of the append-only   *)
(* file are computed as the code computes them.                            *)
(***************************************************************************)
EXTENDS Integers, Sequences, FiniteSets, TLC

VARIABLES
  items,         \* Store.items: map[string]Item
  locks,         \* Store.locks: the RWMutexes of the lock domains of Keys
  mu,            \* Server.mu: the context holding it, or NoCtx
  aof,           \* the bytes of the append-only file
  appended,      \* the number of WriteCommand calls so far
  now,           \* time.Now(), in milliseconds
  pc,            \* the position of every context (clients and the sweep worker)
  args,          \* the request a client read with ReadArray
  rets,          \* the results of the store calls the handler has made
  call,          \* the store call a context is executing
  snap,          \* item, ok := s.items[key] as read by that call
  out,           \* the replies written to the connection for the current request
  keysToDelete,  \* the sweep worker's keysToDelete
  sweepI,        \* the sweep worker's loop index over s.locks
  fatal,         \* why the process died (a panic, a concurrent map access), or ""
  lastOp,        \* per key: the last store write operation executed on it
  lastCmd,       \* per key: the last write a client command made to it
  replay         \* NewServer's s.aof.Load(): whether it runs, and what its reader has yet to read

vars == <<items, locks, mu, aof, appended, now, pc, args, rets, call, snap, out,
          keysToDelete, sweepI, fatal, lastOp, lastCmd, replay>>

----------------------------------------------------------------------------
(* Bounds of the model.                                                    *)

\* The clock stops at MaxTime.
MaxTime == 3
\* No mutating request is read once MaxLog commands are appended to the file.
MaxLog == 2

----------------------------------------------------------------------------
(* Strings.                                                                *)

sPING == <<80,73,78,71>>
sSET == <<83,69,84>>
sGET == <<71,69,84>>
sDEL == <<68,69,76>>
sEXISTS == <<69,88,73,83,84,83>>
sLPUSH == <<76,80,85,83,72>>
sLPOP == <<76,80,79,80>>
sRPUSH == <<82,80,85,83,72>>
sRPOP == <<82,80,79,80>>
sLRANGE == <<76,82,65,78,71,69>>
sSADD == <<83,65,68,68>>
sSREM == <<83,82,69,77>>
sSMEMBERS == <<83,77,69,77,66,69,82,83>>
sHSET == <<72,83,69,84>>
sHGET == <<72,71,69,84>>
sHDEL == <<72,68,69,76>>
sHGETALL == <<72,71,69,84,65,76,76>>
sEX == <<69,88>>
sPX == <<80,88>>
sOK == <<79,75>>
sPONG == <<80,79,78,71>>

\* "a", "b": two keys; "x", "y": values and members; "f": a hash field.
kA == <<97>>
kB == <<98>>
vX == <<120>>
vY == <<121>>
fF == <<102>>
\* "1", "0", "-1", "-3": integer arguments.
n1 == <<49>>
n0 == <<48>>
nM1 == <<45,49>>
nM3 == <<45,51>>

Range(s) == {s[i] : i \in 1..Len(s)}

\* strings.ToUpper on ASCII.
ToUpper(s) == [i \in 1..Len(s) |-> IF s[i] \in 97..122 THEN s[i] - 32 ELSE s[i]]

RECURSIVE DigitsValue(_)
DigitsValue(s) ==
  IF Len(s) = 0 THEN 0
  ELSE 10 * DigitsValue(SubSeq(s, 1, Len(s) - 1)) + (s[Len(s)] - 48)

\* strconv.Atoi: an optional sign, then one or more decimal digits.
Atoi(s) ==
  LET signed == Len(s) > 0 /\ s[1] \in {43, 45}
      digits == IF signed THEN Tail(s) ELSE s
      wellFormed == Len(digits) > 0 /\ \A i \in 1..Len(digits) : digits[i] \in 48..57
  IN IF ~wellFormed THEN [err |-> TRUE, n |-> 0]
     ELSE [err |-> FALSE,
           n |-> IF signed /\ s[1] = 45 THEN 0 - DigitsValue(digits)
                 ELSE DigitsValue(digits)]

RECURSIVE NatDigits(_)
NatDigits(n) ==
  IF n < 10 THEN <<48 + n>> ELSE NatDigits(n \div 10) \o <<48 + (n % 10)>>

\* fmt.Sprintf("%d", n).
Itoa(n) == IF n < 0 THEN <<45>> \o NatDigits(0 - n) ELSE NatDigits(n)

----------------------------------------------------------------------------
(* The value model: store.Item.                                            *)

TypeString == 0
TypeList == 1
TypeSet == 2
TypeHash == 3

\* An interface{} value: its dynamic type and, under it, the value.
EmptyHash == [f \in {} |-> <<>>]
NilV == [dyn |-> "nil", str |-> <<>>, list |-> <<>>, set |-> {}, hash |-> EmptyHash]
StrV(s) == [NilV EXCEPT !.dyn = "string", !.str = s]
ListV(l) == [NilV EXCEPT !.dyn = "[]string", !.list = l]
SetV(m) == [NilV EXCEPT !.dyn = "map[string]struct{}", !.set = m]
HashV(h) == [NilV EXCEPT !.dyn = "map[string]string", !.hash = h]

Item(value, type, expiration) ==
  [Value |-> value, Type |-> type, Expiration |-> expiration]

\* The zero Item: what item, ok := s.items[key] yields for an absent key.
\* Expiration 0 is the zero time.Time.
ZeroItem == Item(NilV, TypeString, 0)

\* isExpired at time t.
isExpired(item, t) == item.Expiration # 0 /\ t > item.Expiration

\* The number of lock domains.
numLocks == 256

\* var hash uint32; hash = 31*hash + uint32(char), modulo 2^32. The 32 bits are
\* kept as two halves of 16 bits, hi * 65536 + lo.
RECURSIVE HashFrom(_, _, _)
HashFrom(hi, lo, key) ==
  IF Len(key) = 0 THEN [hi |-> hi, lo |-> lo]
  ELSE LET low == 31 * lo + Head(key)
       IN HashFrom((31 * hi + low \div 65536) % 65536, low % 65536, Tail(key))

\* getLock: the index in s.locks of the key's RWMutex, hash % uint32(len(s.locks)).
getLock(key) ==
  LET hash == HashFrom(0, 0, key)
  IN ((hash.hi % numLocks) * (65536 % numLocks) + hash.lo) % numLocks

\* s.items[key] = item, and delete(s.items, key).
Put(m, key, item) == (key :> item) @@ m
Delete(m, key) == [k \in DOMAIN m \ {key} |-> m[k]]
\* item, ok := s.items[key].
Lookup(m, key) ==
  IF key \in DOMAIN m THEN [ok |-> TRUE, item |-> m[key]]
  ELSE [ok |-> FALSE, item |-> ZeroItem]

----------------------------------------------------------------------------
(* The methods of Store, as functions of what the method reads under its  *)
(* lock (ok, item), of its arguments and of the time t it reads. A method  *)
(* yields what it does to s.items[key] (act: "none", "put" the item,       *)
(* "del", or "passive": call s.Del(key)) and what it returns.              *)

NoRet == [ok |-> FALSE, n |-> 0, s |-> <<>>, l |-> <<>>, set |-> {}, h |-> EmptyHash]
Effect(act, item, ret) == [act |-> act, item |-> item, ret |-> ret]

\* A Set without the test ttl > 0.
SetAlwaysExpires(value, ttl, t) ==
  Effect("put", Item(StrV(value), TypeString, t + ttl), NoRet)

Set(value, ttl, t) ==
  LET expiration == IF ttl > 0 THEN t + ttl ELSE 0
  IN Effect("put", Item(StrV(value), TypeString, expiration), NoRet)

\* A Get without the check of the entry's kind.
GetAnyKind(ok, item, t) ==
  IF ~ok THEN Effect("none", ZeroItem, NoRet)
  ELSE IF isExpired(item, t) THEN Effect("passive", ZeroItem, NoRet)
  ELSE Effect("none", ZeroItem, [NoRet EXCEPT !.ok = TRUE, !.s = item.Value.str])

Get(ok, item, t) ==
  IF ~ok THEN Effect("none", ZeroItem, NoRet)
  ELSE IF isExpired(item, t) THEN Effect("passive", ZeroItem, NoRet)
  ELSE IF item.Value.dyn # "string" \/ item.Type # TypeString
       THEN Effect("none", ZeroItem, NoRet)
  ELSE Effect("none", ZeroItem, [NoRet EXCEPT !.ok = TRUE, !.s = item.Value.str])

\* A Del that reports the deletion and leaves the entry in the map.
DelKeeps(ok) == Effect("none", ZeroItem, [NoRet EXCEPT !.ok = ok])

Del(ok) ==
  IF ok THEN Effect("del", ZeroItem, [NoRet EXCEPT !.ok = TRUE])
  ELSE Effect("none", ZeroItem, NoRet)

Exists(ok, item, t) ==
  IF ~ok THEN Effect("none", ZeroItem, NoRet)
  ELSE IF isExpired(item, t) THEN Effect("passive", ZeroItem, NoRet)
  ELSE Effect("none", ZeroItem, [NoRet EXCEPT !.ok = TRUE])

\* An Lpush that refuses a key of another kind, in the way of WRONGTYPE.
LpushTyped(ok, item, values) ==
  IF ok /\ item.Type # TypeList THEN Effect("none", ZeroItem, NoRet)
  ELSE LET newlist == values \o (IF ok THEN item.Value.list ELSE <<>>)
       IN Effect("put", Item(ListV(newlist), TypeList, item.Expiration),
                 [NoRet EXCEPT !.n = Len(newlist)])

\* An Lpush that pushes the values one at a time, so that the last is the head.
LpushOneByOne(ok, item, values) ==
  LET list == IF ok /\ item.Type = TypeList THEN item.Value.list ELSE <<>>
      newlist == [i \in 1..Len(values) |-> values[Len(values) + 1 - i]] \o list
  IN Effect("put", Item(ListV(newlist), TypeList, item.Expiration),
            [NoRet EXCEPT !.n = Len(newlist)])

Lpush(ok, item, values) ==
  LET list == IF ok /\ item.Type = TypeList THEN item.Value.list ELSE <<>>
      newlist == values \o list
  IN Effect("put", Item(ListV(newlist), TypeList, item.Expiration),
            [NoRet EXCEPT !.n = Len(newlist)])

Rpush(ok, item, values) ==
  LET list == IF ok /\ item.Type = TypeList THEN item.Value.list ELSE <<>>
      newlist == list \o values
  IN Effect("put", Item(ListV(newlist), TypeList, item.Expiration),
            [NoRet EXCEPT !.n = Len(newlist)])

\* An Lpop that stores the list it emptied.
LpopKeepsEmpty(ok, item, t) ==
  IF ~ok \/ item.Type # TypeList \/ isExpired(item, t) \/ Len(item.Value.list) = 0
  THEN Effect("none", ZeroItem, NoRet)
  ELSE Effect("put", Item(ListV(Tail(item.Value.list)), TypeList, item.Expiration),
              [NoRet EXCEPT !.ok = TRUE, !.s = item.Value.list[1]])

Lpop(ok, item, t) ==
  IF ~ok \/ item.Type # TypeList \/ isExpired(item, t)
  THEN Effect("none", ZeroItem, NoRet)
  ELSE LET list == item.Value.list
       IN IF Len(list) = 0 THEN Effect("none", ZeroItem, NoRet)
          ELSE LET ret == [NoRet EXCEPT !.ok = TRUE, !.s = list[1]]
                   rest == SubSeq(list, 2, Len(list))
               IN IF Len(rest) = 0 THEN Effect("del", ZeroItem, ret)
                  ELSE Effect("put", Item(ListV(rest), TypeList, item.Expiration), ret)

\* An Rpop that takes the element from the head.
RpopFromHead(ok, item, t) == Lpop(ok, item, t)

Rpop(ok, item, t) ==
  IF ~ok \/ item.Type # TypeList \/ isExpired(item, t)
  THEN Effect("none", ZeroItem, NoRet)
  ELSE LET list == item.Value.list
       IN IF Len(list) = 0 THEN Effect("none", ZeroItem, NoRet)
          ELSE LET ret == [NoRet EXCEPT !.ok = TRUE, !.s = list[Len(list)]]
                   rest == SubSeq(list, 1, Len(list) - 1)
               IN IF Len(rest) = 0 THEN Effect("del", ZeroItem, ret)
                  ELSE Effect("put", Item(ListV(rest), TypeList, item.Expiration), ret)

Llen(ok, item, t) ==
  IF ~ok \/ item.Type # TypeList \/ isExpired(item, t)
  THEN Effect("none", ZeroItem, NoRet)
  ELSE Effect("none", ZeroItem, [NoRet EXCEPT !.n = Len(item.Value.list)])

\* Lrange returns nil (ok = FALSE) or a copy of the whole list.
Lrange(ok, item, t) ==
  IF ~ok \/ item.Type # TypeList \/ isExpired(item, t)
  THEN Effect("none", ZeroItem, NoRet)
  ELSE Effect("none", ZeroItem, [NoRet EXCEPT !.ok = TRUE, !.l = item.Value.list])

\* An Sadd that counts every member it is given.
SaddCountsAll(ok, item, members) ==
  LET set == IF ok /\ item.Type = TypeSet THEN item.Value.set ELSE {}
  IN Effect("put", Item(SetV(set \cup Range(members)), TypeSet, item.Expiration),
            [NoRet EXCEPT !.n = Len(members)])

Sadd(ok, item, members) ==
  LET set == IF ok /\ item.Type = TypeSet THEN item.Value.set ELSE {}
      addedCount == Cardinality(Range(members) \ set)
  IN Effect("put", Item(SetV(set \cup Range(members)), TypeSet, item.Expiration),
            [NoRet EXCEPT !.n = addedCount])

Srem(ok, item, members, t) ==
  IF ~ok \/ item.Type # TypeSet \/ isExpired(item, t)
  THEN Effect("none", ZeroItem, NoRet)
  ELSE LET set == item.Value.set
           removedCount == Cardinality(Range(members) \cap set)
           left == set \ Range(members)
           ret == [NoRet EXCEPT !.n = removedCount]
       IN IF left = {} THEN Effect("del", ZeroItem, ret)
          ELSE Effect("put", Item(SetV(left), TypeSet, item.Expiration), ret)

\* Smembers returns nil (ok = FALSE) or the members, in the map's iteration order.
Smembers(ok, item, t) ==
  IF ~ok \/ item.Type # TypeSet \/ isExpired(item, t)
  THEN Effect("none", ZeroItem, NoRet)
  ELSE Effect("none", ZeroItem, [NoRet EXCEPT !.ok = TRUE, !.set = item.Value.set])

Sismember(ok, item, member, t) ==
  IF ~ok \/ item.Type # TypeSet \/ isExpired(item, t)
  THEN Effect("none", ZeroItem, NoRet)
  ELSE Effect("none", ZeroItem, [NoRet EXCEPT !.ok = member \in item.Value.set])

HSet(ok, item, field, value) ==
  LET hash == IF ok /\ item.Type = TypeHash THEN item.Value.hash ELSE EmptyHash
      addedCount == IF field \in DOMAIN hash THEN 0 ELSE 1
  IN Effect("put", Item(HashV((field :> value) @@ hash), TypeHash, item.Expiration),
            [NoRet EXCEPT !.n = addedCount])

HGet(ok, item, field, t) ==
  IF ~ok \/ item.Type # TypeHash \/ isExpired(item, t)
  THEN Effect("none", ZeroItem, NoRet)
  ELSE LET hash == item.Value.hash
       IN IF field \in DOMAIN hash
          THEN Effect("none", ZeroItem, [NoRet EXCEPT !.ok = TRUE, !.s = hash[field]])
          ELSE Effect("none", ZeroItem, NoRet)

HDel(ok, item, fields, t) ==
  IF ~ok \/ item.Type # TypeHash \/ isExpired(item, t)
  THEN Effect("none", ZeroItem, NoRet)
  ELSE LET hash == item.Value.hash
           deletedCount == Cardinality(Range(fields) \cap DOMAIN hash)
           left == [f \in DOMAIN hash \ Range(fields) |-> hash[f]]
           ret == [NoRet EXCEPT !.n = deletedCount]
       IN IF DOMAIN left = {} THEN Effect("del", ZeroItem, ret)
          ELSE Effect("put", Item(HashV(left), TypeHash, item.Expiration), ret)

\* HGetAll returns nil (ok = FALSE) or a copy of the hash.
HGetAll(ok, item, t) ==
  IF ~ok \/ item.Type # TypeHash \/ isExpired(item, t)
  THEN Effect("none", ZeroItem, NoRet)
  ELSE Effect("none", ZeroItem, [NoRet EXCEPT !.ok = TRUE, !.h = item.Value.hash])

\* A store call: the method, its key and its other arguments.
Call(op, key, a, ttl, from) == [op |-> op, key |-> key, a |-> a, ttl |-> ttl, from |-> from]
NoCall == Call("", <<>>, <<>>, 0, "")

\* The methods that take the key's lock for writing (lock.Lock()); the others
\* take it for reading (lock.RLock()).
LocksForWriting(op) ==
  op \in {"Set", "Del", "Lpush", "Rpush", "Lpop", "Rpop", "Sadd", "Srem", "HSet", "HDel"}

\* What call c does, given what it read under its lock and the time it reads.
Do(c, ok, item, t) ==
  CASE c.op = "Set" -> Set(c.a[1], c.ttl, t)
    [] c.op = "Get" -> Get(ok, item, t)
    [] c.op = "Del" -> Del(ok)
    [] c.op = "Exists" -> Exists(ok, item, t)
    [] c.op = "Lpush" -> Lpush(ok, item, c.a)
    [] c.op = "Rpush" -> Rpush(ok, item, c.a)
    [] c.op = "Lpop" -> Lpop(ok, item, t)
    [] c.op = "Rpop" -> Rpop(ok, item, t)
    [] c.op = "Llen" -> Llen(ok, item, t)
    [] c.op = "Lrange" -> Lrange(ok, item, t)
    [] c.op = "Sadd" -> Sadd(ok, item, c.a)
    [] c.op = "Srem" -> Srem(ok, item, c.a, t)
    [] c.op = "Smembers" -> Smembers(ok, item, t)
    [] c.op = "Sismember" -> Sismember(ok, item, c.a[1], t)
    [] c.op = "HSet" -> HSet(ok, item, c.a[1], c.a[2])
    [] c.op = "HGet" -> HGet(ok, item, c.a[1], t)
    [] c.op = "HDel" -> HDel(ok, item, c.a, t)
    [] c.op = "HGetAll" -> HGetAll(ok, item, t)

\* The table after an effect on key.
Apply(m, key, eff) ==
  CASE eff.act = "put" -> Put(m, key, eff.item)
    [] eff.act = "del" -> Delete(m, key)
    [] OTHER -> m

----------------------------------------------------------------------------
(* The command handlers. A handler is a function of the request and of the *)
(* results of the store calls it has made so far: it yields its next store *)
(* call, or the replies it may write to the connection and whether it goes *)
(* on to a.WriteCommand(args[0], args[1:]...).                             *)

NoReply == [kind |-> "", n |-> 0, s |-> <<>>, l |-> <<>>, msg |-> ""]
SimpleString(s) == [NoReply EXCEPT !.kind = "+", !.s = s]
Error(msg, s) == [NoReply EXCEPT !.kind = "-", !.msg = msg, !.s = s]
Integer(n) == [NoReply EXCEPT !.kind = ":", !.n = n]
BulkString(s) == [NoReply EXCEPT !.kind = "$", !.s = s]
NullBulk == [NoReply EXCEPT !.kind = "$-1"]
Array(l) == [NoReply EXCEPT !.kind = "*", !.l = l]

CallStep(c) == [do |-> "call", call |-> c, replies |-> {}, log |-> FALSE]
ReplyStep(rs, log) == [do |-> "reply", call |-> NoCall, replies |-> rs, log |-> log]
ReturnStep == [do |-> "return", call |-> NoCall, replies |-> {}, log |-> FALSE]
\* A slice expression out of range: the goroutine panics and nothing recovers.
PanicStep == [do |-> "panic", call |-> NoCall, replies |-> {}, log |-> FALSE]
\* A rejection that goes on to a.WriteCommand.
WrongArgsLogged(name) == ReplyStep({Error("ERR wrong number of arguments", name)}, TRUE)

WrongArgs(name) == ReplyStep({Error("ERR wrong number of arguments", name)}, FALSE)

\* The orders in which a range over a Go map may visit the keys S.
Orderings(S) ==
  {s \in [1..Cardinality(S) -> S] : \A i, j \in 1..Cardinality(S) : s[i] = s[j] => i = j}

\* The number of calls that returned true.
RECURSIVE CountOk(_)
CountOk(rs) ==
  IF Len(rs) = 0 THEN 0
  ELSE CountOk(SubSeq(rs, 1, Len(rs) - 1)) + (IF rs[Len(rs)].ok THEN 1 ELSE 0)

ping(a, rs) == ReplyStep({SimpleString(sPONG)}, FALSE)

set(a, rs) ==
  IF Len(a) < 3 THEN WrongArgs(sSET)
  ELSE LET option == IF Len(a) > 3 THEN ToUpper(a[4]) ELSE <<>>
           num == IF Len(a) > 4 THEN Atoi(a[5]) ELSE [err |-> TRUE, n |-> 0]
           ttl == IF Len(a) > 4 /\ option = sEX /\ ~num.err THEN num.n * 1000
                  ELSE IF Len(a) > 4 /\ option = sPX /\ ~num.err THEN num.n
                  ELSE 0
       IN IF Len(rs) = 0 THEN CallStep(Call("Set", a[2], <<a[3]>>, ttl, ""))
          ELSE ReplyStep({SimpleString(sOK)}, TRUE)

get(a, rs) ==
  IF Len(a) < 2 THEN WrongArgs(sGET)
  ELSE IF Len(rs) = 0 THEN CallStep(Call("Get", a[2], <<>>, 0, ""))
  ELSE IF ~rs[1].ok THEN ReplyStep({NullBulk}, FALSE)
  ELSE ReplyStep({BulkString(rs[1].s)}, FALSE)

del(a, rs) ==
  IF Len(a) < 2 THEN WrongArgs(sDEL)
  ELSE IF Len(rs) < Len(a) - 1 THEN CallStep(Call("Del", a[Len(rs) + 2], <<>>, 0, ""))
  ELSE ReplyStep({Integer(CountOk(rs))}, TRUE)

exists(a, rs) ==
  IF Len(a) < 2 THEN WrongArgs(sEXISTS)
  ELSE IF Len(rs) < Len(a) - 1 THEN CallStep(Call("Exists", a[Len(rs) + 2], <<>>, 0, ""))
  ELSE ReplyStep({Integer(CountOk(rs))}, FALSE)

lpush(a, rs) ==
  IF Len(a) < 3 THEN WrongArgs(sLPUSH)
  ELSE IF Len(rs) = 0 THEN CallStep(Call("Lpush", a[2], SubSeq(a, 3, Len(a)), 0, ""))
  ELSE ReplyStep({Integer(rs[1].n)}, TRUE)

\* An lpop that goes on to a.WriteCommand when the list was not found, too.
lpopLogsMiss(a, rs) ==
  IF Len(a) < 2 THEN WrongArgs(sLPOP)
  ELSE IF Len(rs) = 0 THEN CallStep(Call("Lpop", a[2], <<>>, 0, ""))
  ELSE IF ~rs[1].ok THEN ReplyStep({NullBulk}, TRUE)
  ELSE ReplyStep({BulkString(rs[1].s)}, TRUE)

lpop(a, rs) ==
  IF Len(a) < 2 THEN WrongArgs(sLPOP)
  ELSE IF Len(rs) = 0 THEN CallStep(Call("Lpop", a[2], <<>>, 0, ""))
  ELSE IF ~rs[1].ok THEN ReplyStep({NullBulk}, FALSE)
  ELSE ReplyStep({BulkString(rs[1].s)}, TRUE)

rpush(a, rs) ==
  IF Len(a) < 3 THEN WrongArgs(sRPUSH)
  ELSE IF Len(rs) = 0 THEN CallStep(Call("Rpush", a[2], SubSeq(a, 3, Len(a)), 0, ""))
  ELSE ReplyStep({Integer(rs[1].n)}, TRUE)

rpop(a, rs) ==
  IF Len(a) < 2 THEN WrongArgs(sRPOP)
  ELSE IF Len(rs) = 0 THEN CallStep(Call("Rpop", a[2], <<>>, 0, ""))
  ELSE IF ~rs[1].ok THEN ReplyStep({NullBulk}, FALSE)
  ELSE ReplyStep({BulkString(rs[1].s)}, TRUE)

lrange(a, rs) ==
  IF Len(a) # 4 THEN WrongArgs(sLRANGE)
  ELSE IF Len(rs) = 0 THEN CallStep(Call("Lrange", a[2], <<>>, 0, ""))
  ELSE
    LET list == rs[1].l
        p1 == Atoi(a[3])
        p2 == Atoi(a[4])
        start0 == IF p1.n < 0 THEN Len(list) + p1.n ELSE p1.n
        end0 == IF p2.n < 0 THEN Len(list) + p2.n ELSE p2.n
        start == IF start0 < 0 THEN 0 ELSE start0
        end == IF end0 >= Len(list) THEN Len(list) - 1 ELSE end0
    IN IF p1.err \/ p2.err
       THEN ReplyStep({Error("ERR value is not an integer or out of range", <<>>)}, FALSE)
       ELSE IF ~rs[1].ok THEN ReplyStep({Array(<<>>)}, FALSE)
       ELSE IF start0 > end0 \/ start0 >= Len(list) THEN ReplyStep({Array(<<>>)}, FALSE)
       ELSE IF end + 1 < start THEN PanicStep
       \* list[start : end+1], with Go's indices from 0
       ELSE ReplyStep({Array(SubSeq(list, start + 1, end + 1))}, FALSE)

sadd(a, rs) ==
  IF Len(a) < 3 THEN WrongArgs(sSADD)
  ELSE IF Len(rs) = 0 THEN CallStep(Call("Sadd", a[2], SubSeq(a, 3, Len(a)), 0, ""))
  ELSE ReplyStep({Integer(rs[1].n)}, TRUE)

srem(a, rs) ==
  IF Len(a) < 3 THEN WrongArgs(sSREM)
  ELSE IF Len(rs) = 0 THEN CallStep(Call("Srem", a[2], SubSeq(a, 3, Len(a)), 0, ""))
  ELSE ReplyStep({Integer(rs[1].n)}, TRUE)

smembers(a, rs) ==
  IF Len(a) < 2 THEN WrongArgs(sSMEMBERS)
  ELSE IF Len(rs) = 0 THEN CallStep(Call("Smembers", a[2], <<>>, 0, ""))
  ELSE ReplyStep({Array(o) : o \in Orderings(rs[1].set)}, FALSE)

hset(a, rs) ==
  IF Len(a) < 4 THEN WrongArgs(sHSET)
  ELSE IF Len(rs) = 0 THEN CallStep(Call("HSet", a[2], <<a[3], a[4]>>, 0, ""))
  ELSE ReplyStep({Integer(rs[1].n)}, TRUE)

hget(a, rs) ==
  IF Len(a) < 3 THEN WrongArgs(sHGET)
  ELSE IF Len(rs) = 0 THEN CallStep(Call("HGet", a[2], <<a[3]>>, 0, ""))
  ELSE IF ~rs[1].ok THEN ReplyStep({NullBulk}, FALSE)
  ELSE ReplyStep({BulkString(rs[1].s)}, FALSE)

hdel(a, rs) ==
  IF Len(a) < 3 THEN WrongArgs(sHDEL)
  ELSE IF Len(rs) = 0 THEN CallStep(Call("HDel", a[2], SubSeq(a, 3, Len(a)), 0, ""))
  ELSE ReplyStep({Integer(rs[1].n)}, TRUE)

hgetall(a, rs) ==
  IF Len(a) < 2 THEN WrongArgs(sHGETALL)
  ELSE IF Len(rs) = 0 THEN CallStep(Call("HGetAll", a[2], <<>>, 0, ""))
  ELSE IF ~rs[1].ok THEN ReplyStep({Array(<<>>)}, FALSE)
  ELSE LET hash == rs[1].h
       IN ReplyStep({Array([i \in 1..(2 * Len(o)) |->
                             IF i % 2 = 1 THEN o[(i + 1) \div 2] ELSE hash[o[i \div 2]]])
                      : o \in Orderings(DOMAIN hash)}, FALSE)

\* The names in the Handlers map.
Handlers ==
  {sPING, sSET, sGET, sDEL, sEXISTS, sLPUSH, sLPOP, sRPUSH, sRPOP, sLRANGE,
   sSADD, sSREM, sSMEMBERS, sHSET, sHGET, sHDEL, sHGETALL}

\* Handle: the next step of the request a, given the store calls' results so far.
Handle(a, rs) ==
  IF Len(a) = 0 THEN ReturnStep
  ELSE LET cmd == ToUpper(a[1])
       IN CASE cmd \notin Handlers -> ReplyStep({Error("ERR unknown command", cmd)}, FALSE)
            [] cmd = sPING -> ping(a, rs)
            [] cmd = sSET -> set(a, rs)
            [] cmd = sGET -> get(a, rs)
            [] cmd = sDEL -> del(a, rs)
            [] cmd = sEXISTS -> exists(a, rs)
            [] cmd = sLPUSH -> lpush(a, rs)
            [] cmd = sLPOP -> lpop(a, rs)
            [] cmd = sRPUSH -> rpush(a, rs)
            [] cmd = sRPOP -> rpop(a, rs)
            [] cmd = sLRANGE -> lrange(a, rs)
            [] cmd = sSADD -> sadd(a, rs)
            [] cmd = sSREM -> srem(a, rs)
            [] cmd = sSMEMBERS -> smembers(a, rs)
            [] cmd = sHSET -> hset(a, rs)
            [] cmd = sHGET -> hget(a, rs)
            [] cmd = sHDEL -> hdel(a, rs)
            [] cmd = sHGETALL -> hgetall(a, rs)

----------------------------------------------------------------------------
(* The append-only file: AOF.WriteCommand and AOF.Load.                    *)

CRLF == <<13, 10>>

RECURSIVE BulkStrings(_)
BulkStrings(parts) ==
  IF Len(parts) = 0 THEN <<>>
  ELSE <<36>> \o Itoa(Len(Head(parts))) \o CRLF \o Head(parts) \o CRLF
       \o BulkStrings(Tail(parts))

\* A WriteCommand that leaves out the "*%d\r\n" line of the record.
WriteCommandHeadless(cmdParts) == BulkStrings(cmdParts)

\* The bytes WriteCommand appends for cmdParts: "*%d\r\n", then "$%d\r\n%s\r\n"
\* for every part.
WriteCommand(cmdParts) ==
  <<42>> \o Itoa(Len(cmdParts)) \o CRLF \o BulkStrings(cmdParts)

\* strings.TrimSpace.
RECURSIVE TrimSpace(_)
TrimSpace(s) ==
  IF Len(s) > 0 /\ s[1] \in {9, 10, 11, 12, 13, 32} THEN TrimSpace(Tail(s))
  ELSE IF Len(s) > 0 /\ s[Len(s)] \in {9, 10, 11, 12, 13, 32}
       THEN TrimSpace(SubSeq(s, 1, Len(s) - 1))
  ELSE s

\* reader.ReadString('\n') on the bytes b: the line with its '\n' and the
\* bytes left, or io.EOF when no '\n' is left.
ReadString(b) ==
  IF \E i \in 1..Len(b) : b[i] = 10
  THEN LET i == CHOOSE i \in 1..Len(b) : b[i] = 10 /\ \A j \in 1..(i - 1) : b[j] # 10
       IN [eof |-> FALSE, line |-> SubSeq(b, 1, i), rest |-> SubSeq(b, i + 1, Len(b))]
  ELSE [eof |-> TRUE, line |-> b, rest |-> <<>>]

\* The loop of Load that reads the arrayLen bulk strings of one record.
\* stop: the loop ended at a line that is no bulk string (break).
RECURSIVE ReadParts(_, _, _)
ReadParts(b, arrayLen, parts) ==
  IF Len(parts) >= arrayLen THEN [err |-> FALSE, parts |-> parts, rest |-> b]
  ELSE LET r == ReadString(b)
           bulkLen == Atoi(TrimSpace(Tail(r.line)))
       IN IF r.eof THEN [err |-> TRUE, parts |-> parts, rest |-> <<>>]
          ELSE IF r.line[1] # 36 THEN [err |-> FALSE, parts |-> parts, rest |-> r.rest]
          ELSE IF bulkLen.err \/ bulkLen.n + 2 > Len(r.rest) \/ bulkLen.n + 2 < 0
               THEN [err |-> TRUE, parts |-> parts, rest |-> <<>>]
          ELSE ReadParts(SubSeq(r.rest, bulkLen.n + 3, Len(r.rest)), arrayLen,
                         Append(parts, SubSeq(r.rest, 1, bulkLen.n)))

\* A store method run to completion on the table m at time t.
Run(m, c, t) ==
  LET l == Lookup(m, c.key) IN Apply(m, c.key, Do(c, l.ok, l.item, t))

\* A switch of Load whose SET case reads the PX field of the record.
ReexecuteWithTTL(m, parts, t) ==
  IF Len(parts) = 0 THEN m
  ELSE LET command == ToUpper(parts[1])
           a == Tail(parts)
       IN CASE command = sSET /\ Len(a) >= 4
                 -> Run(m, Call("Set", a[1], <<a[2]>>, Atoi(a[4]).n, ""), t)
            [] command = sSET /\ Len(a) >= 2 -> Run(m, Call("Set", a[1], <<a[2]>>, 0, ""), t)
            [] command = sDEL /\ Len(a) >= 1 -> Run(m, Call("Del", a[1], <<>>, 0, ""), t)
            [] command = sLPUSH /\ Len(a) >= 2 -> Run(m, Call("Lpush", a[1], Tail(a), 0, ""), t)
            [] command = sRPUSH /\ Len(a) >= 2 -> Run(m, Call("Rpush", a[1], Tail(a), 0, ""), t)
            [] command = sSADD /\ Len(a) >= 2 -> Run(m, Call("Sadd", a[1], Tail(a), 0, ""), t)
            [] command = sSREM /\ Len(a) >= 2 -> Run(m, Call("Srem", a[1], Tail(a), 0, ""), t)
            [] OTHER -> m

\* A switch of Load that also has a case for LPOP.
ReexecuteWithPops(m, parts, t) ==
  IF Len(parts) = 0 THEN m
  ELSE LET command == ToUpper(parts[1])
           a == Tail(parts)
       IN CASE command = sSET /\ Len(a) >= 2 -> Run(m, Call("Set", a[1], <<a[2]>>, 0, ""), t)
            [] command = sDEL /\ Len(a) >= 1 -> Run(m, Call("Del", a[1], <<>>, 0, ""), t)
            [] command = sLPUSH /\ Len(a) >= 2 -> Run(m, Call("Lpush", a[1], Tail(a), 0, ""), t)
            [] command = sRPUSH /\ Len(a) >= 2 -> Run(m, Call("Rpush", a[1], Tail(a), 0, ""), t)
            [] command = sSADD /\ Len(a) >= 2 -> Run(m, Call("Sadd", a[1], Tail(a), 0, ""), t)
            [] command = sSREM /\ Len(a) >= 2 -> Run(m, Call("Srem", a[1], Tail(a), 0, ""), t)
            [] command = sLPOP /\ Len(a) >= 1 -> Run(m, Call("Lpop", a[1], <<>>, 0, ""), t)
            [] OTHER -> m

\* The switch of Load: re-execute one record on the table m.
Reexecute(m, parts, t) ==
  IF Len(parts) = 0 THEN m
  ELSE LET command == ToUpper(parts[1])
           a == Tail(parts)
       IN CASE command = sSET /\ Len(a) >= 2 -> Run(m, Call("Set", a[1], <<a[2]>>, 0, ""), t)
            [] command = sDEL /\ Len(a) >= 1 -> Run(m, Call("Del", a[1], <<>>, 0, ""), t)
            [] command = sLPUSH /\ Len(a) >= 2 -> Run(m, Call("Lpush", a[1], Tail(a), 0, ""), t)
            [] command = sRPUSH /\ Len(a) >= 2 -> Run(m, Call("Rpush", a[1], Tail(a), 0, ""), t)
            [] command = sSADD /\ Len(a) >= 2 -> Run(m, Call("Sadd", a[1], Tail(a), 0, ""), t)
            [] command = sSREM /\ Len(a) >= 2 -> Run(m, Call("Srem", a[1], Tail(a), 0, ""), t)
            [] OTHER -> m

\* Load: replay the bytes b of the file into the table m at time t. It yields the
\* table, the records it read, and whether it returned an error.
RECURSIVE Load(_, _, _, _)
Load(b, m, t, records) ==
  LET r == ReadString(b)
      arrayLen == Atoi(TrimSpace(Tail(r.line)))
      p == ReadParts(r.rest, arrayLen.n, <<>>)
  IN IF r.eof THEN [err |-> FALSE, items |-> m, records |-> records]
     ELSE IF r.line[1] # 42 THEN Load(r.rest, m, t, records)
     ELSE IF arrayLen.err \/ p.err THEN [err |-> TRUE, items |-> m, records |-> records]
     ELSE Load(p.rest, Reexecute(m, p.parts, t), t, Append(records, p.parts))

EmptyStore == [k \in {} |-> ZeroItem]

\* The records in the file.
Records == Load(aof, EmptyStore, now, <<>>).records

----------------------------------------------------------------------------
(* The contexts: one goroutine per client connection (handleConnection)    *)
(* and the goroutine of activeExpirationWorker.                            *)

Clients == {"c1", "c2"}
Worker == "worker"
Ctx == Clients \cup {Worker}
NoCtx == ""

Keys == {kA, kB}

\* The requests the clients send.
Requests ==
  {<<>>, <<sPING>>}
  \cup {<<sSET, k, v>> : k \in Keys, v \in {vX}}
  \cup {<<sSET, k, vY, sPX, n1>> : k \in Keys}
  \cup {<<sSET, kA, vY, sEX, n1>>}
  \cup {<<sGET, k>> : k \in Keys}
  \cup {<<sDEL, kA>>, <<sDEL, kA, kB>>}
  \cup {<<sEXISTS, kA>>, <<sEXISTS, kA, kB>>}
  \cup {<<sLPUSH, kA, vY>>, <<sRPUSH, kA, vY>>, <<sRPUSH, kA, vX, vY>>}
  \cup {<<sLPOP, kA>>, <<sRPOP, kA>>}
  \cup {<<sLRANGE, kA, n0, nM1>>, <<sLRANGE, kA, nM3, nM3>>}
  \cup {<<sSADD, kA, vY>>, <<sSADD, kA, vX, vY>>, <<sSREM, kA, vY>>, <<sSMEMBERS, kA>>}
  \cup {<<sHSET, kA, fF, vY>>, <<sHGET, kA, fF>>, <<sHDEL, kA, fF>>, <<sHGETALL, kA>>}

\* The commands whose handler may reach a.WriteCommand.
Logged == {sSET, sDEL, sLPUSH, sLPOP, sRPUSH, sRPOP, sSADD, sSREM, sHSET, sHDEL}

Domains == 0..(numLocks - 1)
KeyDomains == {getLock(k) : k \in Keys}

\* Of the numLocks RWMutexes the state holds those of KeyDomains: no client asks for
\* another one, so the others are free whenever the worker's loop comes to them.
\* RWMutex: Lock waits until no context holds the mutex; RLock until no writer does.
\* A Lock that does not wait.
NoWait(d) == TRUE

CanLock(d) == locks[d].w = NoCtx /\ locks[d].r = {}
CanRLock(d) == locks[d].w = NoCtx

NoSnap == [ok |-> FALSE, item |-> ZeroItem]
NoOp == [op |-> "", by |-> NoCtx, from |-> "", a |-> <<>>, ttl |-> 0, at |-> 0,
         item |-> ZeroItem]

Running == fatal = ""

\* NewServer has returned and Listen accepts connections: Load has read the file.
Listening == [on |-> FALSE, rest |-> <<>>]

Init ==
  /\ items = EmptyStore
  /\ locks = [d \in KeyDomains |-> [w |-> NoCtx, r |-> {}]]
  /\ mu = NoCtx
  /\ aof = <<>>
  /\ appended = 0
  /\ now = 1
  /\ pc = [x \in Ctx |-> IF x = Worker THEN "ticker" ELSE "read"]
  /\ args = [c \in Clients |-> <<>>]
  /\ rets = [c \in Clients |-> <<>>]
  /\ call = [x \in Ctx |-> NoCall]
  /\ snap = [x \in Ctx |-> NoSnap]
  /\ out = [c \in Clients |-> <<>>]
  /\ keysToDelete = <<>>
  /\ sweepI = 0
  /\ fatal = ""
  /\ lastOp = [k \in Keys |-> NoOp]
  /\ lastCmd = [k \in Keys |-> NoOp]
  /\ replay = Listening

\* time passes.
Tick ==
  /\ Running
  /\ now < MaxTime
  /\ now' = now + 1
  /\ UNCHANGED <<items, locks, mu, aof, appended, pc, args, rets, call, snap, out,
                 keysToDelete, sweepI, fatal, lastOp, lastCmd, replay>>

\* A connection that is served before NewServer has returned.
ReadArrayAtOnce(c, R) ==
  /\ Running
  /\ pc[c] = "read"
  /\ \E a \in R :
       /\ (Len(a) > 0 /\ ToUpper(a[1]) \in Logged) => appended < MaxLog
       /\ args' = [args EXCEPT ![c] = a]
  /\ pc' = [pc EXCEPT ![c] = "mu"]
  /\ UNCHANGED <<items, locks, mu, aof, appended, now, rets, call, snap, out,
                 keysToDelete, sweepI, fatal, lastOp, lastCmd, replay>>

\* handleConnection: parser.ReadArray() returns the next request.
ReadArray(c, R) ==
  /\ Running
  /\ ~replay.on
  /\ pc[c] = "read"
  /\ \E a \in R :
       /\ (Len(a) > 0 /\ ToUpper(a[1]) \in Logged) => appended < MaxLog
       /\ args' = [args EXCEPT ![c] = a]
  /\ pc' = [pc EXCEPT ![c] = "mu"]
  /\ UNCHANGED <<items, locks, mu, aof, appended, now, rets, call, snap, out,
                 keysToDelete, sweepI, fatal, lastOp, lastCmd, replay>>

\* A handleConnection that calls command.Handle without s.mu.
LockMuUnguarded(c) ==
  /\ Running
  /\ pc[c] = "mu"
  /\ mu' = c
  /\ pc' = [pc EXCEPT ![c] = "handle"]
  /\ UNCHANGED <<items, locks, aof, appended, now, args, rets, call, snap, out,
                 keysToDelete, sweepI, fatal, lastOp, lastCmd, replay>>

\* handleConnection: s.mu.Lock().
LockMu(c) ==
  /\ Running
  /\ pc[c] = "mu"
  /\ mu = NoCtx
  /\ mu' = c
  /\ pc' = [pc EXCEPT ![c] = "handle"]
  /\ UNCHANGED <<items, locks, aof, appended, now, args, rets, call, snap, out,
                 keysToDelete, sweepI, fatal, lastOp, lastCmd, replay>>

\* The handler calls a method of the store.
CallStore(c) ==
  /\ Running
  /\ pc[c] = "handle"
  /\ Handle(args[c], rets[c]).do = "call"
  /\ call' = [call EXCEPT ![c] = Handle(args[c], rets[c]).call]
  /\ pc' = [pc EXCEPT ![c] = "lock"]
  /\ UNCHANGED <<items, locks, mu, aof, appended, now, args, rets, snap, out,
                 keysToDelete, sweepI, fatal, lastOp, lastCmd, replay>>

\* A handler that gives up s.mu when it has written its reply, before
\* a.WriteCommand.
ReplyThenUnlock(c) ==
  /\ Running
  /\ pc[c] = "handle"
  /\ Handle(args[c], rets[c]).do = "reply"
  /\ \E r \in Handle(args[c], rets[c]).replies : out' = [out EXCEPT ![c] = Append(@, r)]
  /\ pc' = [pc EXCEPT ![c] = IF Handle(args[c], rets[c]).log THEN "aof" ELSE "unlock"]
  /\ mu' = NoCtx
  /\ UNCHANGED <<items, locks, aof, appended, now, args, rets, call, snap,
                 keysToDelete, sweepI, fatal, lastOp, lastCmd, replay>>

\* The handler writes its reply to the connection.
Reply(c) ==
  /\ Running
  /\ pc[c] = "handle"
  /\ Handle(args[c], rets[c]).do = "reply"
  /\ \E r \in Handle(args[c], rets[c]).replies : out' = [out EXCEPT ![c] = Append(@, r)]
  /\ pc' = [pc EXCEPT ![c] = IF Handle(args[c], rets[c]).log THEN "aof" ELSE "unlock"]
  /\ UNCHANGED <<items, locks, mu, aof, appended, now, args, rets, call, snap,
                 keysToDelete, sweepI, fatal, lastOp, lastCmd, replay>>

\* Handle returns without a reply (a request with no fields).
NoHandler(c) ==
  /\ Running
  /\ pc[c] = "handle"
  /\ Handle(args[c], rets[c]).do = "return"
  /\ pc' = [pc EXCEPT ![c] = "unlock"]
  /\ UNCHANGED <<items, locks, mu, aof, appended, now, args, rets, call, snap, out,
                 keysToDelete, sweepI, fatal, lastOp, lastCmd, replay>>

\* The handler panics: the process dies.
Panic(c) ==
  /\ Running
  /\ pc[c] = "handle"
  /\ Handle(args[c], rets[c]).do = "panic"
  /\ fatal' = "panic"
  /\ UNCHANGED <<items, locks, mu, aof, appended, now, pc, args, rets, call, snap, out,
                 keysToDelete, sweepI, lastOp, lastCmd, replay>>

\* The handler's a.WriteCommand(args[0], args[1:]...), then handleConnection's
\* s.mu.Unlock().
Persist(c) ==
  /\ Running
  /\ pc[c] = "aof"
  /\ aof' = aof \o WriteCommand(args[c])
  /\ appended' = appended + 1
  /\ mu' = NoCtx
  /\ pc' = [pc EXCEPT ![c] = "read"]
  /\ args' = [args EXCEPT ![c] = <<>>]
  /\ rets' = [rets EXCEPT ![c] = <<>>]
  /\ call' = [call EXCEPT ![c] = NoCall]
  /\ snap' = [snap EXCEPT ![c] = NoSnap]
  /\ out' = [out EXCEPT ![c] = <<>>]
  /\ UNCHANGED <<items, locks, now, keysToDelete, sweepI, fatal, lastOp, lastCmd, replay>>

\* a.WriteCommand whose a.file.WriteString fails with nothing written: it
\* returns the error, the handler drops it and returns.
PersistFails(c) ==
  /\ Running
  /\ pc[c] = "aof"
  /\ appended' = appended + 1
  /\ pc' = [pc EXCEPT ![c] = "unlock"]
  /\ UNCHANGED <<items, locks, mu, aof, now, args, rets, call, snap, out,
                 keysToDelete, sweepI, fatal, lastOp, lastCmd, replay>>

\* handleConnection: s.mu.Unlock() after a handler that appends nothing.
UnlockMu(c) ==
  /\ Running
  /\ pc[c] = "unlock"
  /\ mu' = NoCtx
  /\ pc' = [pc EXCEPT ![c] = "read"]
  /\ args' = [args EXCEPT ![c] = <<>>]
  /\ rets' = [rets EXCEPT ![c] = <<>>]
  /\ call' = [call EXCEPT ![c] = NoCall]
  /\ snap' = [snap EXCEPT ![c] = NoSnap]
  /\ out' = [out EXCEPT ![c] = <<>>]
  /\ UNCHANGED <<items, locks, aof, appended, now, keysToDelete, sweepI, fatal, lastOp, lastCmd, replay>>

----------------------------------------------------------------------------
(* A store call, by a client's handler or by the worker: the lock of the   *)
(* key is taken and s.items[key] read; then the method does its work and   *)
(* releases the lock.                                                      *)

\* lock.Lock(); item, ok := s.items[key]
Lock(x) ==
  /\ Running
  /\ pc[x] = "lock"
  /\ LocksForWriting(call[x].op)
  /\ CanLock(getLock(call[x].key))
  /\ locks' = [locks EXCEPT ![getLock(call[x].key)].w = x]
  /\ snap' = [snap EXCEPT ![x] = Lookup(items, call[x].key)]
  /\ pc' = [pc EXCEPT ![x] = "locked"]
  /\ UNCHANGED <<items, mu, aof, appended, now, args, rets, call, out,
                 keysToDelete, sweepI, fatal, lastOp, lastCmd, replay>>

\* lock.RLock(); item, ok := s.items[key]
RLock(x) ==
  /\ Running
  /\ pc[x] = "lock"
  /\ ~LocksForWriting(call[x].op)
  /\ CanRLock(getLock(call[x].key))
  /\ locks' = [locks EXCEPT ![getLock(call[x].key)].r = @ \cup {x}]
  /\ snap' = [snap EXCEPT ![x] = Lookup(items, call[x].key)]
  /\ pc' = [pc EXCEPT ![x] = "rlocked"]
  /\ UNCHANGED <<items, mu, aof, appended, now, args, rets, call, out,
                 keysToDelete, sweepI, fatal, lastOp, lastCmd, replay>>

\* What a write operation leaves in the history of its key: the method, its caller,
\* its arguments, the time of a Set with a TTL, and the item it stored.
Done(x) ==
  [op |-> call[x].op, by |-> x, from |-> call[x].from, a |-> call[x].a,
   ttl |-> call[x].ttl, at |-> IF call[x].ttl > 0 THEN now ELSE 0,
   item |-> Do(call[x], snap[x].ok, snap[x].item, now).item]

\* The rest of a method that holds the lock for writing, and its lock.Unlock().
\* A client goes back to its handler (a Del called by Get or Exists makes the
\* caller return false); the worker goes on with its loop over keysToDelete.
Unlock(x) ==
  /\ Running
  /\ pc[x] = "locked"
  /\ LET eff == Do(call[x], snap[x].ok, snap[x].item, now)
     IN /\ items' = Apply(items, call[x].key, eff)
        /\ rets' = IF x \in Clients
                   THEN [rets EXCEPT ![x] =
                           Append(@, IF call[x].from = "" THEN eff.ret ELSE NoRet)]
                   ELSE rets
  /\ locks' = [locks EXCEPT ![getLock(call[x].key)].w = NoCtx]
  /\ pc' = [pc EXCEPT ![x] = IF x = Worker THEN "delete" ELSE "handle"]
  /\ lastOp' = [lastOp EXCEPT ![call[x].key] = Done(x)]
  /\ lastCmd' = IF x \in Clients /\ call[x].from = ""
                THEN [lastCmd EXCEPT ![call[x].key] = Done(x)]
                ELSE lastCmd
  /\ UNCHANGED <<mu, aof, appended, now, args, call, snap, out, keysToDelete, sweepI, fatal, replay>>

\* A Get and an Exists that call s.Del(key) with their read lock still held.
RUnlockKeepsLock(x) ==
  /\ Running
  /\ pc[x] = "rlocked"
  /\ LET eff == Do(call[x], snap[x].ok, snap[x].item, now)
     IN IF eff.act = "passive"
        THEN /\ call' = [call EXCEPT ![x] = Call("Del", call[x].key, <<>>, 0, call[x].op)]
             /\ pc' = [pc EXCEPT ![x] = "lock"]
             /\ rets' = rets
             /\ locks' = locks
        ELSE /\ rets' = [rets EXCEPT ![x] = Append(@, eff.ret)]
             /\ pc' = [pc EXCEPT ![x] = "handle"]
             /\ call' = call
             /\ locks' = [locks EXCEPT ![getLock(call[x].key)].r = @ \ {x}]
  /\ UNCHANGED <<items, mu, aof, appended, now, args, snap, out,
                 keysToDelete, sweepI, fatal, lastOp, lastCmd, replay>>

\* The rest of a method that holds the lock for reading, and its lock.RUnlock().
\* Get and Exists go on to s.Del(key) when the item they read is expired.
RUnlock(x) ==
  /\ Running
  /\ pc[x] = "rlocked"
  /\ locks' = [locks EXCEPT ![getLock(call[x].key)].r = @ \ {x}]
  /\ LET eff == Do(call[x], snap[x].ok, snap[x].item, now)
     IN IF eff.act = "passive"
        THEN /\ call' = [call EXCEPT ![x] = Call("Del", call[x].key, <<>>, 0, call[x].op)]
             /\ pc' = [pc EXCEPT ![x] = "lock"]
             /\ rets' = rets
        ELSE /\ rets' = [rets EXCEPT ![x] = Append(@, eff.ret)]
             /\ pc' = [pc EXCEPT ![x] = "handle"]
             /\ call' = call
  /\ UNCHANGED <<items, mu, aof, appended, now, args, snap, out,
                 keysToDelete, sweepI, fatal, lastOp, lastCmd, replay>>

----------------------------------------------------------------------------
(* activeExpirationWorker.                                                 *)

\* The domain after d at which the worker's loops over s.locks next meet the
\* lock of a key: the locks before it are never contended, and the loop passes them
\* in the same step.
NextStop(d) ==
  IF \E e \in KeyDomains : e > d
  THEN CHOOSE e \in KeyDomains : e > d /\ \A g \in KeyDomains : g > d => e <= g
  ELSE numLocks

\* for range ticker.C: the ticker fires.
Ticker ==
  /\ Running
  /\ pc[Worker] = "ticker"
  /\ keysToDelete' = <<>>
  /\ sweepI' = 0
  /\ pc' = [pc EXCEPT ![Worker] = "lockall"]
  /\ UNCHANGED <<items, locks, mu, aof, appended, now, args, rets, call, snap, out,
                 fatal, lastOp, lastCmd, replay>>

\* for i := range s.locks { s.locks[i].Lock() }
LockAll ==
  /\ Running
  /\ pc[Worker] = "lockall"
  /\ {d \in KeyDomains : d \in sweepI..(NextStop(sweepI) - 1) /\ ~CanLock(d)} = {}
  /\ locks' = [d \in KeyDomains |->
                 IF d \in sweepI..(NextStop(sweepI) - 1)
                 THEN [w |-> Worker, r |-> {}] ELSE locks[d]]
  /\ sweepI' = NextStop(sweepI)
  /\ pc' = [pc EXCEPT ![Worker] = IF NextStop(sweepI) = numLocks THEN "scan" ELSE "lockall"]
  /\ UNCHANGED <<items, mu, aof, appended, now, args, rets, call, snap, out,
                 keysToDelete, fatal, lastOp, lastCmd, replay>>

\* A scan that finds no expired key.
ScanFindsNone ==
  /\ Running
  /\ pc[Worker] = "scan"
  /\ keysToDelete' = <<>>
  /\ sweepI' = 0
  /\ pc' = [pc EXCEPT ![Worker] = "unlockall"]
  /\ UNCHANGED <<items, locks, mu, aof, appended, now, args, rets, call, snap, out,
                 fatal, lastOp, lastCmd, replay>>

\* for key, item := range s.items: the expired keys, in the map's iteration order.
Scan ==
  /\ Running
  /\ pc[Worker] = "scan"
  /\ keysToDelete' \in Orderings({k \in DOMAIN items : isExpired(items[k], now)})
  /\ sweepI' = 0
  /\ pc' = [pc EXCEPT ![Worker] = "unlockall"]
  /\ UNCHANGED <<items, locks, mu, aof, appended, now, args, rets, call, snap, out,
                 fatal, lastOp, lastCmd, replay>>

\* for i := range s.locks { s.locks[i].Unlock() }
UnlockAll ==
  /\ Running
  /\ pc[Worker] = "unlockall"
  /\ locks' = [d \in KeyDomains |->
                 IF d \in sweepI..(NextStop(sweepI) - 1)
                 THEN [w |-> NoCtx, r |-> {}] ELSE locks[d]]
  /\ sweepI' = NextStop(sweepI)
  /\ pc' = [pc EXCEPT ![Worker] =
              IF NextStop(sweepI) = numLocks THEN "delete" ELSE "unlockall"]
  /\ UNCHANGED <<items, mu, aof, appended, now, args, rets, call, snap, out,
                 keysToDelete, fatal, lastOp, lastCmd, replay>>

\* for _, key := range keysToDelete { s.Del(key) }
SweepDel ==
  /\ Running
  /\ pc[Worker] = "delete"
  /\ Len(keysToDelete) > 0
  /\ call' = [call EXCEPT ![Worker] = Call("Del", Head(keysToDelete), <<>>, 0, "sweep")]
  /\ keysToDelete' = Tail(keysToDelete)
  /\ pc' = [pc EXCEPT ![Worker] = "lock"]
  /\ UNCHANGED <<items, locks, mu, aof, appended, now, args, rets, snap, out,
                 sweepI, fatal, lastOp, lastCmd, replay>>

\* The loop over keysToDelete ends: back to the ticker.
SweepEnd ==
  /\ Running
  /\ pc[Worker] = "delete"
  /\ Len(keysToDelete) = 0
  /\ call' = [call EXCEPT ![Worker] = NoCall]
  /\ snap' = [snap EXCEPT ![Worker] = NoSnap]
  /\ sweepI' = 0
  /\ pc' = [pc EXCEPT ![Worker] = "ticker"]
  /\ UNCHANGED <<items, locks, mu, aof, appended, now, args, rets, out,
                 keysToDelete, fatal, lastOp, lastCmd, replay>>

----------------------------------------------------------------------------
(* Concurrent access to the one map s.items.                               *)

\* x is inside a method, between taking a lock and releasing it, or the worker
\* holds all the locks and ranges over the map.
InStore(x) ==
  \/ pc[x] \in {"locked", "rlocked"}
  \/ x = Worker /\ pc[x] = "scan"

\* The locks x holds.
Held(x) == {d \in KeyDomains : locks[d].w = x \/ x \in locks[d].r}

\* x is blocked in s.mu.Lock(), lock.Lock() or lock.RLock() on a mutex that y
\* holds.
WaitsFor(x, y) ==
  \/ x \in Clients /\ pc[x] = "mu" /\ mu = y
  \/ /\ pc[x] = "lock"
     /\ IF LocksForWriting(call[x].op)
        THEN getLock(call[x].key) \in Held(y)
        ELSE locks[getLock(call[x].key)].w = y
  \/ /\ x = Worker /\ pc[x] = "lockall"
     /\ \E d \in KeyDomains : d \in sweepI..(NextStop(sweepI) - 1) /\ d \in Held(y)

\* x is about to write the map.
Writes(x) ==
  pc[x] = "locked" /\ Do(call[x], snap[x].ok, snap[x].item, now).act \in {"put", "del"}

\* Two contexts are in the map at once under different locks, one of them writing.
Race ==
  \E x, y \in Ctx :
    /\ x # y
    /\ InStore(x) /\ InStore(y)
    /\ Writes(x)
    /\ Held(x) \cap Held(y) = {}

\* The Go runtime may detect the concurrent map access and abort the process
\* ("fatal error: concurrent map read and map write"); when it does not, the run goes on.
MapFault ==
  /\ Running
  /\ Race
  /\ fatal' = "concurrent map access"
  /\ UNCHANGED <<items, locks, mu, aof, appended, now, pc, args, rets, call, snap, out,
                 keysToDelete, sweepI, lastOp, lastCmd, replay>>

\* What the server does with the connections C open, whose clients send the
\* requests R, none of which makes Handle return without a reply or panic.
Serve(C, R) ==
  \/ Tick
  \/ \E c \in C : ReadArray(c, R)
  \/ \E c \in C : LockMu(c)
  \/ \E c \in C : CallStore(c)
  \/ \E c \in C : Reply(c)
  \/ \E c \in C : Persist(c)
  \/ \E c \in C : UnlockMu(c)
  \/ \E x \in C \cup {Worker} : Lock(x)
  \/ \E x \in C \cup {Worker} : RLock(x)
  \/ \E x \in C \cup {Worker} : Unlock(x)
  \/ \E x \in C \cup {Worker} : RUnlock(x)
  \/ Ticker
  \/ LockAll
  \/ Scan
  \/ UnlockAll
  \/ SweepDel
  \/ SweepEnd
  \/ MapFault

\* One connection, its client sending Requests: commands of every handler.
Next ==
  \/ Serve({"c1"}, Requests)
  \/ \E c \in {"c1"} : NoHandler(c)
  \/ \E c \in {"c1"} : Panic(c)

Spec == Init /\ [][Next]_vars

\* Two connections, the clients sending commands on the keys a and b.
RequestsPair ==
  {<<sSET, kA, vY, sPX, n1>>, <<sRPUSH, kA, vX>>, <<sRPUSH, kA, vY>>, <<sGET, kB>>}
NextPair == Serve(Clients, RequestsPair)
SpecPair == Init /\ [][NextPair]_vars

\* One connection, its client sending every command that changes the store.
RequestsWrites ==
  {<<sSET, kA, vY, sPX, n1>>, <<sDEL, kA>>, <<sLPUSH, kA, vY>>, <<sRPUSH, kA, vY>>,
   <<sLPOP, kA>>, <<sRPOP, kA>>, <<sSADD, kA, vY>>, <<sSREM, kA, vY>>,
   <<sHSET, kA, fF, vY>>, <<sHDEL, kA, fF>>, <<sGET, kB>>}
NextWrites == Serve({"c1"}, RequestsWrites)
SpecWrites == Init /\ [][NextWrites]_vars

\* Two connections, their clients setting the key a with a TTL and getting it.
RequestsGets == {<<sSET, kA, vY, sPX, n1>>, <<sGET, kA>>, <<sGET, kB>>}
NextGets == Serve(Clients, RequestsGets)
SpecGets == Init /\ [][NextGets]_vars

\* Two connections, their clients writing and reading the list under the key a.
RequestsShared ==
  {<<sSET, kA, vY, sPX, n1>>, <<sRPUSH, kA, vX>>, <<sLRANGE, kA, n0, nM1>>, <<sGET, kB>>}
NextShared == Serve(Clients, RequestsShared)
SpecShared == Init /\ [][NextShared]_vars

\* One connection, its client sending the string commands on the key a, and a
\* GET on the key b of another lock domain.
RequestsStrings ==
  {<<sSET, kA, vX>>, <<sSET, kA, vY, sPX, n1>>, <<sDEL, kA>>, <<sGET, kA>>, <<sGET, kB>>}
NextStrings == Serve({"c1"}, RequestsStrings)
SpecStrings == Init /\ [][NextStrings]_vars

\* One connection, its client sending commands that make and read entries of
\* every kind under the key a, and a GET on the key b of another lock domain.
RequestsKinds ==
  {<<sSET, kA, vX>>, <<sSET, kA, vY, sPX, n1>>,
   <<sLPUSH, kA, vY>>, <<sRPUSH, kA, vY>>, <<sSADD, kA, vY>>, <<sHSET, kA, fF, vY>>,
   <<sGET, kA>>, <<sHGET, kA, fF>>, <<sHGETALL, kA>>, <<sLRANGE, kA, n0, nM1>>,
   <<sLPOP, kA>>, <<sRPOP, kA>>, <<sSMEMBERS, kA>>, <<sSREM, kA, vY>>, <<sGET, kB>>}
NextKinds == Serve({"c1"}, RequestsKinds)
SpecKinds == Init /\ [][NextKinds]_vars

\* One connection, its client sending commands that add one element, member or
\* field under the key a and remove it, a SET with a TTL, and a GET on the key b.
RequestsLast ==
  {<<sSET, kA, vY, sPX, n1>>, <<sLPUSH, kA, vY>>, <<sLPOP, kA>>, <<sRPOP, kA>>, <<sSADD, kA, vY>>,
   <<sSREM, kA, vY>>, <<sHSET, kA, fF, vY>>, <<sHDEL, kA, fF>>, <<sGET, kB>>}
NextLast == Serve({"c1"}, RequestsLast)
SpecLast == Init /\ [][NextLast]_vars

\* One client that pushes onto and pops from one list.
RequestsLists ==
  {<<sSET, kA, vY, sPX, n1>>, <<sLPUSH, kA, vX, vY>>, <<sRPUSH, kA, vY, vX>>,
   <<sLPOP, kA>>, <<sRPOP, kA>>, <<sGET, kB>>}
NextLists == Serve({"c1"}, RequestsLists)
SpecLists == Init /\ [][NextLists]_vars

\* One client that adds members to, removes members from and lists one set.
RequestsSets ==
  {<<sSET, kA, vY, sPX, n1>>, <<sSADD, kA, vY>>, <<sSADD, kA, vX, vY, vY>>,
   <<sSREM, kA, vX>>, <<sSREM, kA, vX, vY>>, <<sSMEMBERS, kA>>, <<sGET, kB>>}
NextSets == Serve({"c1"}, RequestsSets)
SpecSets == Init /\ [][NextSets]_vars

\* One client that also sends requests with too few fields and an LRANGE whose
\* start is no integer.
RequestsErrors ==
  {<<sSET, kA, vY, sPX, n1>>, <<sRPUSH, kA, vY>>, <<sSET, kA>>, <<sGET>>,
   <<sLRANGE, kA, n0>>, <<sLRANGE, kA, vX, n0>>, <<sLRANGE, kA, n0, nM1>>, <<sGET, kB>>}
NextErrors == Serve({"c1"}, RequestsErrors)
SpecErrors == Init /\ [][NextErrors]_vars

\* One client of strings, on a file whose writes may fail.
NextAppend ==
  \/ Serve({"c1"}, RequestsStrings)
  \/ \E c \in {"c1"} : PersistFails(c)
SpecAppend == Init /\ [][NextAppend]_vars

\* One pass of the loop of Load, between NewStore, which has started the
\* worker, and Listen: at the end of the file Load returns nil and NewServer
\* returns; a line that is no array is passed over; a record that cannot be
\* read makes Load return an error, and log.Fatalf ends the process; any
\* other record is re-executed, under the lock of its key.
LoadRecord ==
  /\ Running
  /\ replay.on
  /\ LET r == ReadString(replay.rest)
         arrayLen == Atoi(TrimSpace(Tail(r.line)))
         p == ReadParts(r.rest, arrayLen.n, <<>>)
         name == ToUpper(p.parts[1])
         calls == /\ Len(p.parts) >= 2
                  /\ name \in {sSET, sDEL, sLPUSH, sRPUSH, sSADD, sSREM}
                  /\ name = sDEL \/ Len(p.parts) >= 3
     IN IF r.eof THEN replay' = Listening /\ UNCHANGED <<items, fatal>>
        ELSE IF r.line[1] # 42
        THEN replay' = [replay EXCEPT !.rest = r.rest] /\ UNCHANGED <<items, fatal>>
        ELSE IF arrayLen.err \/ p.err
        THEN fatal' = "Failed to load AOF" /\ UNCHANGED <<items, replay>>
        ELSE /\ calls => CanLock(getLock(p.parts[2]))
             /\ items' = Reexecute(items, p.parts, now)
             /\ replay' = [replay EXCEPT !.rest = p.rest]
             /\ fatal' = fatal
  /\ UNCHANGED <<locks, mu, aof, appended, now, pc, args, rets, call, snap, out,
                 keysToDelete, sweepI, lastOp, lastCmd>>

\* Files that an earlier run of the server has left: no file; records of
\* commands it served; and a file whose last record is cut short, as a process
\* that is killed while it writes leaves it.
Logs ==
  {<<>>,
   WriteCommand(<<sSET, kA, vY, sPX, n1>>),
   WriteCommand(<<sRPUSH, kA, vX, vY>>) \o WriteCommand(<<sLPOP, kA>>),
   WriteCommand(<<sHSET, kA, fF, vY>>) \o WriteCommand(<<<<115, 101, 116>>, kB, vX>>),
   WriteCommand(<<sSADD, kA, vX, vY>>) \o WriteCommand(<<sSREM, kA, vY>>),
   WriteCommand(<<sSET, kA, vX>>) \o WriteCommand(<<sHDEL, kA, fF>>)
     \o WriteCommand(<<sDEL, kA, kB>>),
   WriteCommand(<<sSET, kB, vX>>)
     \o SubSeq(WriteCommand(<<sSET, kA, vX>>), 1, Len(WriteCommand(<<sSET, kA, vX>>)) - 7)}

\* The start of the process on one of these files: NewStore has made the empty
\* store and started the worker, NewAOF has opened the file, Load begins.
InitRestart ==
  /\ items = EmptyStore
  /\ locks = [d \in KeyDomains |-> [w |-> NoCtx, r |-> {}]]
  /\ mu = NoCtx
  /\ aof \in Logs
  /\ appended = 0
  /\ now = 1
  /\ pc = [x \in Ctx |-> IF x = Worker THEN "ticker" ELSE "read"]
  /\ args = [c \in Clients |-> <<>>]
  /\ rets = [c \in Clients |-> <<>>]
  /\ call = [x \in Ctx |-> NoCall]
  /\ snap = [x \in Ctx |-> NoSnap]
  /\ out = [c \in Clients |-> <<>>]
  /\ keysToDelete = <<>>
  /\ sweepI = 0
  /\ fatal = ""
  /\ lastOp = [k \in Keys |-> NoOp]
  /\ lastCmd = [k \in Keys |-> NoOp]
  /\ replay = [on |-> TRUE, rest |-> aof]

NextRestart ==
  \/ LoadRecord
  \/ Serve({"c1"}, RequestsStrings)
SpecRestart == InitRestart /\ [][NextRestart]_vars

\* A step of activeExpirationWorker's goroutine.
WorkerStep ==
  \/ Ticker \/ LockAll \/ Scan \/ UnlockAll \/ SweepDel \/ SweepEnd
  \/ Lock(Worker) \/ Unlock(Worker)

\* SpecStrings with the scheduling the sweep relies on: the ticker keeps firing
\* and the worker's goroutine keeps running, a sync.RWMutex does not starve a
\* waiting Lock(), and a method that holds a key's lock runs on to its
\* Unlock() or RUnlock().
SpecSweep ==
  /\ SpecStrings
  /\ SF_vars(WorkerStep)
  /\ \A c \in Clients : WF_vars(Unlock(c) \/ RUnlock(c))

----------------------------------------------------------------------------
(* Properties of the store and of the server.                              *)

Last(s) == s[Len(s)]

\* What Get and HGet return for a value v they found.
Found(v) == [NoRet EXCEPT !.ok = TRUE, !.s = v]

\* A client's method call takes its last step: it releases the key's lock.
Leaves(x) == pc[x] \in {"locked", "rlocked"} /\ pc'[x] # pc[x]

\* C1: a Get of key k that follows a Set of k to v with no TTL, with no other
\* operation on k in between, returns v; a Get of k that follows a Del of k, with
\* no other operation on k in between, returns not-found.
C1_GetAfterSetOrDel ==
  [][\A c \in Clients :
       (Leaves(c) /\ call[c].op = "Get")
       => LET w == lastOp[call[c].key]
          IN /\ (w.op = "Set" /\ w.ttl = 0)
                  => pc'[c] = "handle" /\ Last(rets'[c]) = Found(w.a[1])
             /\ w.op = "Del"
                  => pc'[c] = "handle" /\ ~Last(rets'[c]).ok]_vars

\* A Get has returned x, the value of the Set without TTL that was the last
\* operation on its key.
C1_Witness ==
  \E c \in Clients :
    /\ pc[c] = "handle" /\ call[c].op = "Get" /\ rets[c] = <<Found(vX)>>
    /\ lastOp[call[c].key].op = "Set"
    /\ lastOp[call[c].key].ttl = 0
    /\ lastOp[call[c].key].a = <<vX>>

\* C2: when the last command that wrote key k is a Set of k to v with a TTL t > 0
\* done at time T, a Get of k returns v at every time up to T + t and not-found at
\* every later time, whatever the sweep has done in between.
C2_GetWithinTTL ==
  [][\A c \in Clients :
       (Leaves(c) /\ call[c].op = "Get"
          /\ lastCmd[call[c].key].op = "Set" /\ lastCmd[call[c].key].ttl > 0)
       => LET w == lastCmd[call[c].key]
          IN IF now <= w.at + w.ttl
             THEN pc'[c] = "handle" /\ Last(rets'[c]) = Found(w.a[1])
             ELSE pc'[c] = "lock" \/ ~Last(rets'[c]).ok]_vars

\* The commands Load executes again.
Replayed == {sSET, sDEL, sLPUSH, sRPUSH, sSADD, sSREM}

\* The same keys, with the same kinds and the same contents.
SameContents(m1, m2) ==
  /\ DOMAIN m1 = DOMAIN m2
  /\ \A k \in DOMAIN m1 : m1[k].Type = m2[k].Type /\ m1[k].Value = m2[k].Value

\* C3: when no command is in progress and the log holds only SET (without TTL),
\* DEL, LPUSH, RPUSH, SADD and SREM commands, Load of the log into an empty store
\* gives the keys, kinds and contents of the live store.
C3_ReplayRebuildsStore ==
  (/\ Running
   /\ \A c \in Clients : pc[c] = "read"
   /\ \A i \in 1..Len(Records) :
        /\ ToUpper(Records[i][1]) \in Replayed
        /\ ToUpper(Records[i][1]) = sSET => Len(Records[i]) = 3)
  => LET l == Load(aof, EmptyStore, now, <<>>)
     IN ~l.err /\ SameContents(l.items, items)

\* C4: no context inserts into or deletes from s.items while another context
\* is in the map under a different lock.
C4_NoConcurrentMutation == ~Race

\* C5: a delete made for expiry (the sweep's s.Del(key), or the s.Del(key) of Get
\* and Exists) removes an entry only if the entry is expired at that moment.
C5_ExpiryDeletesOnlyExpired ==
  [][\A x \in Ctx :
       (/\ pc[x] = "locked" /\ pc'[x] # "locked"
        /\ call[x].op = "Del" /\ call[x].from # ""
        /\ call[x].key \in DOMAIN items /\ call[x].key \notin DOMAIN items')
       => isExpired(items[call[x].key], now)]_vars

\* C6: a mutating method applies to the entry that is in the map when it writes:
\* between its read of s.items[key] under the key's lock and its write, no other
\* context changes the entry, so the operations on a key take effect one after
\* the other and none is lost.
C6_NoLostUpdate ==
  \A x \in Ctx : pc[x] = "locked" => snap[x] = Lookup(items, call[x].key)

\* The worker is inside s.Del(key) while a client's mutating method waits for
\* the lock of the same domain.
C6_Witness ==
  \E c \in Clients :
    /\ pc[Worker] = "locked" /\ snap[Worker].ok
    /\ pc[c] = "lock" /\ LocksForWriting(call[c].op)
    /\ getLock(call[c].key) = getLock(call[Worker].key)

\* C7: a client whose command is on a key of one lock domain never waits for a
\* lock held by a client whose command is on a key of another lock domain.
C7_NoWaitAcrossDomains ==
  \A c, d \in Clients :
    ~(/\ c # d
      /\ pc[c] = "mu" /\ mu = d
      /\ Len(args[c]) > 1 /\ Len(args[d]) > 1
      /\ getLock(args[c][2]) # getLock(args[d][2]))

\* The kind of entry a method works on.
Kind(op) ==
  CASE op \in {"Lpush", "Rpush", "Lpop", "Rpop", "Llen", "Lrange"} -> TypeList
    [] op \in {"Sadd", "Srem", "Smembers", "Sismember"} -> TypeSet
    [] op \in {"HSet", "HGet", "HDel", "HGetAll"} -> TypeHash
    [] OTHER -> TypeString

\* The collection made of exactly the elements a write-style call supplies, and
\* their number.
Supplied(c) ==
  CASE c.op \in {"Lpush", "Rpush"} -> ListV(c.a)
    [] c.op = "Sadd" -> SetV(Range(c.a))
    [] c.op = "HSet" -> HashV(c.a[1] :> c.a[2])
SuppliedCount(c) ==
  CASE c.op \in {"Lpush", "Rpush"} -> Len(c.a)
    [] c.op = "Sadd" -> Cardinality(Range(c.a))
    [] c.op = "HSet" -> 1

\* C8: Lpush, Rpush, Sadd or HSet on a key that holds an entry of another kind
\* leaves the key with an entry of the method's kind that holds exactly the
\* supplied elements, and returns their number.
C8_WriteReplacesOtherKind ==
  [][\A x \in Clients :
       (/\ Leaves(x)
        /\ call[x].op \in {"Lpush", "Rpush", "Sadd", "HSet"}
        /\ snap[x].ok /\ snap[x].item.Type # Kind(call[x].op))
       => /\ call[x].key \in DOMAIN items'
          /\ items'[call[x].key].Type = Kind(call[x].op)
          /\ items'[call[x].key].Value = Supplied(call[x])
          /\ pc'[x] = "handle"
          /\ Last(rets'[x]).n = SuppliedCount(call[x])]_vars

\* SET k x then LPUSH k y: Lpush found the string, returned 1, and k is the list [y].
C8_Witness ==
  \E c \in Clients :
    /\ pc[c] = "handle" /\ call[c].op = "Lpush" /\ call[c].a = <<vY>>
    /\ snap[c].ok /\ snap[c].item.Type = TypeString
    /\ rets[c] = <<[NoRet EXCEPT !.n = 1]>>
    /\ Lookup(items, call[c].key).item.Type = TypeList
    /\ Lookup(items, call[c].key).item.Value = ListV(<<vY>>)

\* C9: a read-style method (Get, HGet, HGetAll, Lrange, Lpop, Rpop, Smembers,
\* Srem; and Llen and Sismember, which no command calls, on every stored entry)
\* that finds a non-expired entry of another kind returns not-found and leaves
\* s.items as it is.
C9_ReadOfOtherKind ==
  [][/\ \A x \in Clients :
          (/\ Leaves(x)
           /\ call[x].op \in {"Get", "HGet", "HGetAll", "Lrange", "Lpop", "Rpop",
                               "Smembers", "Srem"}
           /\ snap[x].ok /\ ~isExpired(snap[x].item, now)
           /\ snap[x].item.Type # Kind(call[x].op))
          => pc'[x] = "handle" /\ Last(rets'[x]) = NoRet /\ items' = items
     /\ \A k \in DOMAIN items :
          ~isExpired(items[k], now)
          => /\ items[k].Type # TypeList
                  => Llen(TRUE, items[k], now) = Effect("none", ZeroItem, NoRet)
             /\ items[k].Type # TypeSet
                  => \A m \in {vX, vY} :
                       Sismember(TRUE, items[k], m, now) = Effect("none", ZeroItem, NoRet)]_vars

\* SET k x then HGET k f: HGet found the live string, returned not-found, and k
\* still holds the string.
C9_Witness ==
  \E c \in Clients :
    /\ pc[c] = "handle" /\ call[c].op = "HGet"
    /\ snap[c].ok /\ snap[c].item.Type = TypeString /\ ~isExpired(snap[c].item, now)
    /\ rets[c] = <<NoRet>>
    /\ Lookup(items, call[c].key) = snap[c]

\* What a reader finds under a key after a method's effect eff at time t.
Logical(eff, t) ==
  IF eff.act = "put" /\ ~isExpired(eff.item, t)
  THEN [present |-> TRUE, Type |-> eff.item.Type, Value |-> eff.item.Value]
  ELSE [present |-> FALSE, Type |-> TypeString, Value |-> NilV]

\* C10: a method a command calls on a key whose entry is expired returns what it
\* returns for an absent key, and leaves under the key what it leaves for an
\* absent key.
C10_ExpiredIsAbsent ==
  \A x \in Clients :
    (/\ pc[x] \in {"locked", "rlocked"}
     /\ call[x].from = ""
     /\ snap[x].ok /\ isExpired(snap[x].item, now))
    => LET e == Do(call[x], TRUE, snap[x].item, now)
           n == Do(call[x], FALSE, ZeroItem, now)
       IN e.ret = n.ret /\ Logical(e, now) = Logical(n, now)

\* No entry of the table m is an empty list, an empty set or an empty hash.
NoEmptyCollection(m) ==
  \A k \in DOMAIN m :
    /\ m[k].Type = TypeList => Len(m[k].Value.list) > 0
    /\ m[k].Type = TypeSet => m[k].Value.set # {}
    /\ m[k].Type = TypeHash => DOMAIN m[k].Value.hash # {}

\* No command is in progress and the worker waits for its ticker.
Quiet == Running /\ pc[Worker] = "ticker" /\ \A c \in Clients : pc[c] = "read"

\* C11: s.items never holds an empty list, set or hash, and neither does the
\* table Load builds from the file the commands have written.
C11_NoEmptyCollection ==
  /\ NoEmptyCollection(items)
  /\ Quiet => NoEmptyCollection(Load(aof, EmptyStore, now, <<>>).items)

\* LPUSH k y then LPOP k: Lpop found the list [y], returned y, and k is absent.
C11_Witness ==
  \E c \in Clients :
    /\ pc[c] = "handle" /\ call[c].op = "Lpop"
    /\ snap[c].ok /\ snap[c].item.Value = ListV(<<vY>>)
    /\ rets[c] = <<Found(vY)>>
    /\ call[c].key \notin DOMAIN items

\* The range rule of LRANGE: the elements of list from start to end inclusive,
\* negative indices counted from the tail, both indices clamped to the list.
RangeRule(list, start, end) ==
  LET n == Len(list)
      s0 == IF start < 0 THEN n + start ELSE start
      e0 == IF end < 0 THEN n + end ELSE end
      s1 == IF s0 < 0 THEN 0 ELSE s0
      e1 == IF e0 >= n THEN n - 1 ELSE e0
  IN IF s0 > e0 \/ s0 >= n THEN <<>> ELSE SubSeq(list, s1 + 1, e1 + 1)

\* A client whose LRANGE request holds the list that Store.Lrange returned.
InLrange(c) ==
  /\ pc[c] = "handle"
  /\ Len(args[c]) = 4
  /\ ToUpper(args[c][1]) = sLRANGE
  /\ Len(rets[c]) = 1
  /\ rets[c][1].ok
  /\ Len(rets[c][1].l) >= 1
  /\ ~Atoi(args[c][3]).err
  /\ ~Atoi(args[c][4]).err

\* C12: LRANGE on a list of length n >= 1 never fails; for every pair of
\* integer indices it replies with exactly the elements that the range rule
\* selects (negative indices counted from the tail, empty when start > end or
\* start >= n, otherwise clamped to 0..n-1).
C12_LrangeRule ==
  \A c \in Clients :
    InLrange(c)
      => Handle(args[c], rets[c]) =
           ReplyStep({Array(RangeRule(rets[c][1].l, Atoi(args[c][3]).n,
                                      Atoi(args[c][4]).n))}, FALSE)

\* The list that a call found under its key: empty when it found no entry.
FoundList(x) == IF snap[x].ok THEN snap[x].item.Value.list ELSE <<>>

\* C13: Lpush of x1..xm onto a key that holds the list L leaves x1..xm followed
\* by L, Rpush leaves L followed by x1..xm, and both return len(L) + m; L is
\* empty when the key is absent.
C13_PushKeepsBlockOrder ==
  [][\A x \in Clients :
       (/\ Leaves(x)
        /\ call[x].op \in {"Lpush", "Rpush"}
        /\ (snap[x].ok => snap[x].item.Type = TypeList))
       => /\ call[x].key \in DOMAIN items'
          /\ items'[call[x].key].Type = TypeList
          /\ items'[call[x].key].Value =
               ListV(IF call[x].op = "Lpush" THEN call[x].a \o FoundList(x)
                     ELSE FoundList(x) \o call[x].a)
          /\ pc'[x] = "handle"
          /\ Last(rets'[x]).n = Len(FoundList(x)) + Len(call[x].a)]_vars

\* RPUSH k y x then LPUSH k x y: Lpush found [y, x], returned 4, and k is the
\* list [x, y, y, x].
C13_Witness ==
  \E c \in Clients :
    /\ pc[c] = "handle" /\ call[c].op = "Lpush" /\ call[c].a = <<vX, vY>>
    /\ snap[c].ok /\ snap[c].item.Value = ListV(<<vY, vX>>)
    /\ rets[c] = <<[NoRet EXCEPT !.n = 4]>>
    /\ Lookup(items, call[c].key).item.Value = ListV(<<vX, vY, vY, vX>>)

\* C14: Lpop (Rpop) on a key that holds a list that is not expired returns its
\* first (last) element and leaves the other elements in their order, or no
\* entry when that was the only element; on an absent key or an entry of
\* another kind it returns not-found and leaves s.items as it is.
C14_PopTakesOneEnd ==
  [][\A x \in Clients :
       (Leaves(x) /\ call[x].op \in {"Lpop", "Rpop"})
       => LET k == call[x].key
              old == Lookup(items, k)
              list == old.item.Value.list
              n == Len(list)
          IN /\ (old.ok /\ old.item.Type = TypeList /\ ~isExpired(old.item, now))
                  => /\ pc'[x] = "handle"
                     /\ Last(rets'[x]) =
                          Found(IF call[x].op = "Lpop" THEN list[1] ELSE list[n])
                     /\ \A j \in DOMAIN items \ {k} : j \in DOMAIN items' /\ items'[j] = items[j]
                     /\ IF n = 1 THEN k \notin DOMAIN items'
                        ELSE /\ k \in DOMAIN items'
                             /\ items'[k].Type = TypeList
                             /\ items'[k].Value =
                                  ListV(IF call[x].op = "Lpop" THEN SubSeq(list, 2, n)
                                        ELSE SubSeq(list, 1, n - 1))
             /\ (~old.ok \/ old.item.Type # TypeList)
                  => /\ pc'[x] = "handle"
                     /\ Last(rets'[x]) = NoRet
                     /\ items' = items]_vars

\* LPUSH k x y then RPOP k: Rpop found [x, y], returned y, and k is the list [x].
C14_Witness ==
  \E c \in Clients :
    /\ pc[c] = "handle" /\ call[c].op = "Rpop"
    /\ snap[c].ok /\ snap[c].item.Value = ListV(<<vX, vY>>)
    /\ rets[c] = <<Found(vY)>>
    /\ Lookup(items, call[c].key).item.Value = ListV(<<vX>>)

\* C15: Sadd returns the number of distinct members it is given that the set
\* under the key did not hold, and leaves the set with them added (all of them
\* held already: it returns 0 and s.items is as before); Srem on a set that is
\* not expired returns the number of given members that the set held, and leaves
\* the set without them, or no entry when none is left; Smembers on a key with no
\* entry returns no members, and the handler replies with the empty array.
C15_SetCounts ==
  [][\A x \in Clients :
       Leaves(x)
       => LET k == call[x].key
              old == Lookup(items, k)
              held == IF old.ok THEN old.item.Value.set ELSE {}
              given == Range(call[x].a)
          IN /\ (call[x].op = "Sadd" /\ (old.ok => old.item.Type = TypeSet))
                  => /\ Last(rets'[x]).n = Cardinality(given \ held)
                     /\ k \in DOMAIN items'
                     /\ items'[k].Type = TypeSet
                     /\ items'[k].Value = SetV(held \cup given)
                     /\ (old.ok /\ given \subseteq held) => items' = items
             /\ (/\ call[x].op = "Srem"
                 /\ old.ok /\ old.item.Type = TypeSet /\ ~isExpired(old.item, now))
                  => /\ Last(rets'[x]).n = Cardinality(given \cap held)
                     /\ IF held \subseteq given THEN k \notin DOMAIN items'
                        ELSE /\ k \in DOMAIN items'
                             /\ items'[k].Type = TypeSet
                             /\ items'[k].Value = SetV(held \ given)
             /\ (call[x].op = "Smembers" /\ ~old.ok)
                  => /\ Last(rets'[x]) = NoRet
                     /\ Handle(args[x], rets'[x]) = ReplyStep({Array(<<>>)}, FALSE)]_vars

\* SADD k y then SADD k x y y: Sadd found {y}, returned 1, and k is the held {x, y}.
C15_Witness ==
  \E c \in Clients :
    /\ pc[c] = "handle" /\ call[c].op = "Sadd" /\ call[c].a = <<vX, vY, vY>>
    /\ snap[c].ok /\ snap[c].item.Value = SetV({vY})
    /\ rets[c] = <<[NoRet EXCEPT !.n = 1]>>
    /\ Lookup(items, call[c].key).item.Value = SetV({vX, vY})

\* C16: HSet returns 1 exactly when the hash under the key did not hold the
\* field and 0 when it held it, and leaves the field with the new value; an HGet
\* of that field that follows, with no other operation on the key in between,
\* returns the new value; HDel on a hash that is not expired returns the number
\* of given fields that the hash held, and leaves the hash without them, or no
\* entry when no field is left.
C16_HashFields ==
  [][\A x \in Clients :
       Leaves(x)
       => LET k == call[x].key
              old == Lookup(items, k)
              hash == IF old.ok THEN old.item.Value.hash ELSE EmptyHash
              given == Range(call[x].a)
          IN /\ (call[x].op = "HSet" /\ (old.ok => old.item.Type = TypeHash))
                  => /\ Last(rets'[x]).n = (IF call[x].a[1] \in DOMAIN hash THEN 0 ELSE 1)
                     /\ k \in DOMAIN items'
                     /\ items'[k].Type = TypeHash
                     /\ items'[k].Value = HashV((call[x].a[1] :> call[x].a[2]) @@ hash)
             /\ (/\ call[x].op = "HGet"
                 /\ lastOp[k].op = "HSet"
                 /\ lastOp[k].a[1] = call[x].a[1])
                  => Last(rets'[x]) = Found(lastOp[k].a[2])
             /\ (/\ call[x].op = "HDel"
                 /\ old.ok /\ old.item.Type = TypeHash /\ ~isExpired(old.item, now))
                  => /\ Last(rets'[x]).n = Cardinality(given \cap DOMAIN hash)
                     /\ IF DOMAIN hash \subseteq given THEN k \notin DOMAIN items'
                        ELSE /\ k \in DOMAIN items'
                             /\ items'[k].Type = TypeHash
                             /\ items'[k].Value =
                                  HashV([f \in DOMAIN hash \ given |-> hash[f]])]_vars

\* C17: Set leaves under the key a string entry that holds the value, whatever
\* entry of whatever kind was there; the entry has no expiration when the ttl is
\* zero (the request names no EX or PX), also when the entry it replaces had
\* one, and the expiration now + ttl when the ttl is positive; no other key
\* changes.
C17_SetReplaces ==
  [][\A x \in Clients :
       (Leaves(x) /\ call[x].op = "Set")
       => LET k == call[x].key
          IN /\ pc'[x] = "handle"
             /\ k \in DOMAIN items'
             /\ items'[k].Type = TypeString
             /\ items'[k].Value = StrV(args[x][3])
             /\ Len(args[x]) = 3 => call[x].ttl = 0
             /\ call[x].ttl <= 0 => items'[k].Expiration = 0
             /\ call[x].ttl > 0 => items'[k].Expiration = now + call[x].ttl
             /\ \A j \in DOMAIN items \ {k} : j \in DOMAIN items' /\ items'[j] = items[j]
             /\ DOMAIN items' = DOMAIN items \cup {k}]_vars

\* SET k y PX 1 on a key that holds a list: k is the string y that expires at
\* now + 1.
C17_Witness ==
  \E c \in Clients :
    /\ pc[c] = "handle" /\ call[c].op = "Set" /\ call[c].ttl = 1
    /\ snap[c].ok /\ snap[c].item.Type = TypeList
    /\ Len(rets[c]) = 1
    /\ Lookup(items, call[c].key).item = Item(StrV(vY), TypeString, now + 1)

\* C18: an entry whose expiration has passed is in the end removed from s.items
\* by the sweep, as long as no client's method call is on its key and the
\* process runs (the sweep's goroutine is scheduled and its ticker fires).
C18_SweepRemovesExpired ==
  \A k \in Keys :
    (k \in DOMAIN items /\ isExpired(items[k], now))
      ~> \/ k \notin DOMAIN items
         \/ \E c \in Clients : pc[c] \in {"lock", "locked", "rlocked"} /\ call[c].key = k
         \/ ~Running

\* SET k y PX 1, time passes, and the sweep's s.Del(k) has removed the expired k.
C18_Witness ==
  /\ pc[Worker] = "delete" /\ call[Worker].op = "Del"
  /\ snap[Worker].ok /\ isExpired(snap[Worker].item, now)
  /\ call[Worker].key \notin DOMAIN items
  /\ \A c \in Clients : pc[c] = "read"

\* C19: no request makes the process terminate: whatever the request and the
\* store, the handler of a command never panics.
C19_NoPanic ==
  /\ fatal # "panic"
  /\ \A c \in Clients : pc[c] = "handle" => Handle(args[c], rets[c]).do # "panic"

\* C20: every request that handleConnection passes to Handle gets exactly one
\* reply: when handleConnection goes back to read the next request, one reply
\* to the last one has been written to the connection, never none and never
\* more than one.
C20_OneReplyPerRequest ==
  [][\A c \in Clients :
       /\ Len(out'[c]) <= 1
       /\ (pc[c] \in {"aof", "unlock"} /\ pc'[c] = "read") => Len(out[c]) = 1]_vars

\* The request a is rejected: its handler finds too few or too many fields, or
\* lrange finds an index that is no integer.
Rejected(a) ==
  /\ Len(a) > 0
  /\ ToUpper(a[1]) \in Handlers
  /\ \/ Handle(a, <<>>) = WrongArgs(ToUpper(a[1]))
     \/ /\ ToUpper(a[1]) = sLRANGE /\ Len(a) = 4
        /\ Atoi(a[3]).err \/ Atoi(a[4]).err

\* C21: while handleConnection serves a rejected request, no step of it changes
\* s.items or the file; the handler writes one error reply and does not go on
\* to a.WriteCommand; the process runs on and handleConnection goes back to
\* read the next request of the connection.
C21_RejectedChangesNothing ==
  [][\A c \in Clients :
       (pc[c] \notin {"read", "mu"} /\ pc'[c] # pc[c] /\ Rejected(args[c]))
       => /\ items' = items
          /\ aof' = aof
          /\ fatal' = ""
          /\ pc'[c] # "aof"
          /\ pc[c] = "handle" /\ pc'[c] = "unlock"
               => /\ Len(out'[c]) = 1
                  /\ out'[c][1].kind = "-"
          /\ pc[c] = "unlock" => pc'[c] = "read" /\ mu' = NoCtx]_vars

\* RPUSH k y then LRANGE k x 0: the reply is the error, k still holds [y], and
\* the file holds the RPUSH only.
C21_Witness ==
  \E c \in Clients :
    /\ pc[c] = "unlock" /\ args[c] = <<sLRANGE, kA, vX, n0>>
    /\ out[c] = <<Error("ERR value is not an integer or out of range", <<>>)>>
    /\ Lookup(items, kA).item.Value = ListV(<<vY>>)
    /\ aof = WriteCommand(<<sRPUSH, kA, vY>>)

\* C22: when a.WriteCommand does not append its record, s.items keeps what the
\* command did to it, handleConnection goes on to serve the connection, and the
\* failure is told: an error reply is written to the connection or the process
\* stops with the error.
C22_AppendFailureIsTold ==
  [][\A c \in Clients :
       (pc[c] = "aof" /\ pc'[c] # "aof" /\ aof' # aof \o WriteCommand(args[c]))
       => /\ items' = items
          /\ pc'[c] \in {"unlock", "read"}
          /\ Len(out'[c]) > Len(out[c]) \/ fatal' # ""]_vars

\* C23: while Load replays the file no client request is read or served, and
\* when Load ends s.items holds the replay of the whole file; when Load fails
\* the process ends and no request is ever served.
C23_ReplayBeforeClients ==
  [][/\ (replay.on \/ replay'.on)
          => \A c \in Clients :
               /\ pc'[c] = "read" /\ args'[c] = <<>> /\ out'[c] = <<>>
               /\ mu' = NoCtx
     /\ (replay.on /\ ~replay'.on)
          => /\ ~Load(aof, EmptyStore, now, <<>>).err
             /\ items' = Load(aof, EmptyStore, now, <<>>).items
     /\ fatal' = "Failed to load AOF" => replay'.on]_vars

\* Load has re-executed the first record of a file of two and has the second
\* to read, while every connection waits.
C23_Witness ==
  /\ replay.on
  /\ replay.rest = WriteCommand(<<sSREM, kA, vY>>)
  /\ Lookup(items, kA).item.Value = SetV({vX, vY})
  /\ \A c \in Clients : pc[c] = "read"

\* C24: when Get, Exists, Llen, Lrange, Smembers, Sismember, HGet or HGetAll
\* has found an expired entry under its key, the key has no entry in s.items
\* when the method returns.
C24_ReadDeletesExpired ==
  [][\A x \in Clients :
       (/\ pc'[x] = "handle"
        /\ \/ /\ pc[x] = "rlocked"
              /\ call[x].op \in {"Get", "Exists", "Llen", "Lrange", "Smembers",
                                 "Sismember", "HGet", "HGetAll"}
              /\ snap[x].ok /\ isExpired(snap[x].item, now)
           \/ /\ pc[x] = "locked"
              /\ call[x].from \in {"Get", "Exists"})
       => call[x].key \notin DOMAIN items']_vars

\* C25: a pass of Load changes s.items only when the name of its record is, in
\* whatever case, SET, DEL, LPUSH, RPUSH, SADD or SREM (a SET leaves its value
\* under its key); a record of any other name leaves s.items as it is, and Load
\* goes on with the bytes that follow the record.
C25_ReplayWhitelist ==
  [][(replay.on /\ replay'.on /\ replay'.rest # replay.rest /\ replay.rest[1] = 42)
       => LET r == ReadString(replay.rest)
              parts == ReadParts(r.rest, Atoi(TrimSpace(Tail(r.line))).n, <<>>).parts
              name == ToUpper(parts[1])
          IN /\ items' # items => name \in {sSET, sDEL, sLPUSH, sRPUSH, sSADD, sSREM}
             /\ (Len(parts) >= 3 /\ name = sSET)
                  => Lookup(items', parts[2]).item = Item(StrV(parts[3]), TypeString, 0)
             /\ (Len(parts) > 0 /\ name \notin {sSET, sDEL, sLPUSH, sRPUSH, sSADD, sSREM})
                  => /\ items' = items
                     /\ fatal' = ""
                     /\ replay'.on
                     /\ replay.rest = WriteCommand(parts) \o replay'.rest]_vars

\* Load has passed over the HSET record of a file and re-executed the record
\* "set b x" after it.
C25_Witness ==
  /\ ~replay.on
  /\ aof = WriteCommand(<<sHSET, kA, fF, vY>>) \o WriteCommand(<<<<115, 101, 116>>, kB, vX>>)
  /\ DOMAIN items = {kB}
  /\ items[kB] = Item(StrV(vX), TypeString, 0)
  /\ appended = 0

\* C26: at most one client is in a.WriteCommand at a time; the file changes only
\* there, by one whole record put after the bytes it holds: the records Load
\* reads from it are the ones it read before, followed by the new one, and Load
\* gives the table it gave before with the new record re-executed on it.
C26_AppendsAreWhole ==
  [][/\ \A c, d \in Clients : (pc[c] = "aof" /\ pc[d] = "aof") => c = d
     /\ aof' # aof
          => \E c \in Clients :
               LET old == Load(aof, EmptyStore, now, <<>>)
                   new == Load(aof', EmptyStore, now, <<>>)
               IN /\ pc[c] = "aof" /\ mu = c
                  /\ aof' = aof \o WriteCommand(args[c])
                  /\ ~new.err
                  /\ new.records = Append(old.records, args[c])
                  /\ new.items = Reexecute(old.items, args[c], now)]_vars

\* One client is about to append its record after the record of another
\* command, while the other client waits for s.mu with a command of its own.
C26_Witness ==
  /\ aof = WriteCommand(<<sRPUSH, kA, vX>>)
  /\ pc["c2"] = "aof" /\ args["c2"] = <<sSET, kA, vY, sPX, n1>>
  /\ pc["c1"] = "mu" /\ args["c1"] = <<sRPUSH, kA, vX>>

\* C27: a handler writes no reply while its store method runs; it goes on to
\* a.WriteCommand in the step that writes its reply, after the store method of
\* its command has run on its key (for LPOP and RPOP: has returned an element);
\* the file grows only then, for a command whose one reply is out, and the append
\* leaves the store as it is.
C27_ApplyReplyAppend ==
  [][\A c \in Clients :
       LET methodRan ==
             /\ Len(rets[c]) > 0
             /\ lastCmd[args[c][2]].by = c
             /\ <<ToUpper(args[c][1]), lastCmd[args[c][2]].op>>
                  \in {<<sSET, "Set">>, <<sDEL, "Del">>, <<sLPUSH, "Lpush">>,
                       <<sRPUSH, "Rpush">>, <<sLPOP, "Lpop">>, <<sRPOP, "Rpop">>,
                       <<sSADD, "Sadd">>, <<sSREM, "Srem">>, <<sHSET, "HSet">>,
                       <<sHDEL, "HDel">>}
             /\ ToUpper(args[c][1]) \in {sLPOP, sRPOP} => Last(rets[c]).ok
       IN /\ pc[c] \in {"lock", "locked", "rlocked"} => out[c] = <<>>
          /\ (pc[c] # "aof" /\ pc'[c] = "aof")
               => /\ methodRan
                  /\ out[c] = <<>> /\ Len(out'[c]) = 1
                  /\ aof' = aof /\ items' = items
          /\ (pc[c] = "aof" /\ aof' # aof)
               => /\ methodRan
                  /\ Len(out[c]) = 1
                  /\ items' = items]_vars

\* The reply to HSET a f y is out and the field is in the store, and the file
\* is still empty.
C27_Witness ==
  /\ pc["c1"] = "aof" /\ args["c1"] = <<sHSET, kA, fF, vY>>
  /\ out["c1"] = <<Integer(1)>>
  /\ kA \in DOMAIN items /\ items[kA].Type = TypeHash
  /\ aof = <<>>

\* C28: no context waits for a mutex held by itself, and no two or three contexts
\* wait for one another in a circle; a client holds at most one lock of the
\* store, and none when it asks for one; the worker, while it takes the locks,
\* holds those below its loop index, and holds none when it calls s.Del(key).
C28_NoWaitCycle ==
  /\ \A x, y \in Ctx : ~(WaitsFor(x, y) /\ WaitsFor(y, x))
  /\ \A x, y, z \in Ctx : ~(WaitsFor(x, y) /\ WaitsFor(y, z) /\ WaitsFor(z, x))
  /\ \A c \in Clients :
       /\ Cardinality(Held(c)) <= 1
       /\ pc[c] = "lock" => Held(c) = {}
  /\ pc[Worker] = "lockall" => Held(Worker) = {d \in KeyDomains : d < sweepI}
  /\ pc[Worker] \in {"ticker", "delete", "lock"} => Held(Worker) = {}
  /\ pc[Worker] = "locked" => Held(Worker) = {getLock(call[Worker].key)}

\* A chain of waits: one client waits for s.mu, which the other client holds
\* while its Del, called by Get for the expired key a, waits for the lock that
\* the worker holds.
C28_Witness ==
  /\ pc["c2"] = "mu" /\ mu = "c1"
  /\ pc["c1"] = "lock" /\ call["c1"].op = "Del" /\ call["c1"].from = "Get"
  /\ WaitsFor("c1", Worker)

\* C29: from its lock.RLock() to its lock.RUnlock() a reading method has the
\* entry that is in the map; what it returns is the result of the method on the
\* entry in the map as it leaves; from the call of a client's handler to its
\* return, its inspection of the value after lock.RUnlock() included, no other
\* client is in a method of the store, and the worker is in no method but Del,
\* which writes no collection.
C29_ReadsAreAtomic ==
  [][/\ \A x \in Clients :
          /\ pc[x] = "rlocked" => snap[x] = Lookup(items, call[x].key)
          /\ (pc[x] = "rlocked" /\ pc'[x] = "handle")
               => LET l == Lookup(items, call[x].key)
                  IN Last(rets'[x]) = Do(call[x], l.ok, l.item, now).ret
          /\ pc[x] \in {"handle", "lock", "locked", "rlocked"}
               => \A d \in Clients \ {x} : pc[d] \in {"read", "mu"}
     /\ pc[Worker] \in {"lock", "locked"} => call[Worker].op = "Del"]_vars

\* LRANGE a 0 -1 has read the list under a and holds the read lock, while the
\* other client waits with an RPUSH on a and the worker is about to delete a.
C29_Witness ==
  /\ pc["c1"] = "rlocked" /\ call["c1"].op = "Lrange"
  /\ snap["c1"].ok /\ snap["c1"].item.Value = ListV(<<vX>>)
  /\ pc["c2"] = "mu" /\ args["c2"] = <<sRPUSH, kA, vX>>
  /\ pc[Worker] = "lock" /\ call[Worker].key = kA

\* C30: as long as Load runs, and when it returns, no entry of the store has an
\* expiration; a SET record leaves its value under its key with no expiration,
\* with or without PX or EX fields; and a Del that the sweep, a Get or an Exists
\* calls for an expired key leaves the file as it is, as does the rest of the
\* command that called it.
C30_ReplayDropsTTL ==
  [][/\ replay.on => \A k \in DOMAIN items' : items'[k].Expiration = 0
     /\ (replay.on /\ replay'.on /\ replay'.rest # replay.rest /\ replay.rest[1] = 42)
          => LET r == ReadString(replay.rest)
                 parts == ReadParts(r.rest, Atoi(TrimSpace(Tail(r.line))).n, <<>>).parts
             IN (Len(parts) >= 3 /\ ToUpper(parts[1]) = sSET)
                  => /\ parts[2] \in DOMAIN items'
                     /\ items'[parts[2]] = Item(StrV(parts[3]), TypeString, 0)
                     /\ ~isExpired(items'[parts[2]], MaxTime)
     /\ \A x \in Ctx :
          (pc[x] = "locked" /\ pc'[x] # "locked" /\ call[x].from # "")
            => /\ aof' = aof
               /\ pc'[x] # "aof"
               /\ x \in Clients => ToUpper(args[x][1]) \notin Logged]_vars

\* The file of a run that served SET a y PX 1 and saw the key expire has been
\* replayed: a holds y with no expiration, at a time later than its TTL.
C30_Witness ==
  /\ ~replay.on
  /\ aof = WriteCommand(<<sSET, kA, vY, sPX, n1>>)
  /\ appended = 0
  /\ kA \in DOMAIN items
  /\ items[kA] = Item(StrV(vY), TypeString, 0)
  /\ now = MaxTime

\* C31: when a client appends the record of its command, the last write that a
\* command has made to the key of the record is the one this command made: no
\* other command has written the key since, so the records of the commands on a
\* key are in the file in the order in which the store applied them.
C31_LogOrderIsStoreOrder ==
  [][\A c \in Clients :
       (pc[c] = "aof" /\ aof' # aof)
         => /\ lastCmd[args[c][2]].by = c
            /\ lastCmd[args[c][2]].a = call[c].a
            /\ \A d \in Clients \ {c} : pc[d] \in {"read", "mu"}]_vars

\* The file holds RPUSH a x and then RPUSH a y, the second appended by c2 after
\* the first, and the store holds the list x, y.
C31_Witness ==
  /\ aof = WriteCommand(<<sRPUSH, kA, vX>>) \o WriteCommand(<<sRPUSH, kA, vY>>)
  /\ lastCmd[kA].by = "c2" /\ lastCmd[kA].a = <<vY>>
  /\ Lookup(items, kA).item.Value = ListV(<<vX, vY>>)
  /\ \A c \in Clients : pc[c] = "read"

\* C32: when Lpush, Rpush, Sadd or HSet finds under its key an entry of another
\* kind, the entry it stores has no expiration.
C32_FreshCollectionHasNoTTL ==
  [][\A x \in Clients :
       (/\ Leaves(x)
        /\ pc[x] = "locked"
        /\ call[x].op \in {"Lpush", "Rpush", "Sadd", "HSet"}
        /\ snap[x].ok
        /\ snap[x].item.Type # Kind(call[x].op))
       => /\ call[x].key \in DOMAIN items'
          /\ items'[call[x].key].Expiration = 0]_vars
====
